---- MODULE Spec2Model ----
(***************************************************************************)
(* A model of the union-find structures of disjoint-sets.                  *)
(*                                                                         *)
(* Part 1: the packed-word lock-free AUnionFind of src/src/concurrent.rs.  *)
(* Every atomic load and every compare-and-swap is one step of one thread; *)
(* the local computation between two atomic accesses belongs to the step   *)
(* of the access before it.                                                *)
(*                                                                         *)
(* Part 2: the exported AUnionFind of src/src/async.rs, which keeps an     *)
(* entry's id and rank in two atomics, run against the sequential          *)
(* UnionFind of src/src/array.rs by the Tester of tests/random_async.rs.   *)
(***************************************************************************)
EXTENDS Integers, Sequences, FiniteSets, TLC

(***************************************************************************)
(* Bounds of the model.                                                    *)
(***************************************************************************)
\* new(Size): the number of elements of the structure
Size == 2
\* the number of threads sharing the structure
NumThreads == 2
\* the number of calls each thread makes
MaxCalls == 2

\* the operations a thread may call
AllOps == {"union", "find", "equiv", "force"}

(***************************************************************************)
(* The packed entry codec (the target_pointer_width = "32" split).         *)
(***************************************************************************)
RECURSIVE Pow2(_)
Pow2(n) == IF n = 0 THEN 1 ELSE 2 * Pow2(n - 1)

RECURSIVE BitOr(_, _)
BitOr(m, n) ==
    IF m = 0 THEN n
    ELSE IF n = 0 THEN m
    ELSE (IF (m % 2) + (n % 2) > 0 THEN 1 ELSE 0) + 2 * BitOr(m \div 2, n \div 2)

ID_BITS == 27
RK_BITS == 32 - ID_BITS
RK_SHIFT == 0
ID_SHIFT == RK_BITS
RK_MASK == Pow2(RK_BITS) - 1
RK_MAX == Pow2(RK_BITS)
ID_MAX == Pow2(ID_BITS)

\* struct Entry { id, rk }
Entry(id, rk) == [id |-> id, rk |-> rk]

\* From<usize> for Entry with the rank taken without RK_MASK
EntryFromWordNoMask(value) ==
    Entry(value \div Pow2(ID_SHIFT), value \div Pow2(RK_SHIFT))

\* From<usize> for Entry: (value & ID_MASK) >> ID_SHIFT, (value & RK_MASK) >> RK_SHIFT
EntryFromWord(value) ==
    Entry(value \div Pow2(ID_SHIFT), (value % (RK_MASK + 1)) \div Pow2(RK_SHIFT))

\* From<Entry> for usize: (id << ID_SHIFT) | (rk << RK_SHIFT)
WordFromEntry(view) ==
    BitOr(view.id * Pow2(ID_SHIFT), view.rk * Pow2(RK_SHIFT))

\* inc_rank adding one to the wrong field of the entry
inc_rank_id(e) == Entry(e.id + 1, e.rk)

\* inc_rank keeping one bit of the rank: the rank wraps round to 0
inc_rank_wrap(e) == Entry(e.id, (e.rk + 1) % 2)

\* inc_rank adding two to the rank
inc_rank_two(e) == Entry(e.id, e.rk + 2)

\* Entry::inc_rank
inc_rank(e) == Entry(e.id, e.rk + 1)

\* a local that holds no entry / no element
NoEntry == [id |-> -1, rk |-> -1]
NoElem == -1

(***************************************************************************)
(* State.                                                                  *)
(***************************************************************************)
VARIABLES
    cells,      \* AUnionFind.0: the array of AtomicEntry words
    loc,        \* per thread: the position in its call and the call's locals
    menu,       \* per thread: for each of its calls, the operations to choose
                \* from; or, for a thread that runs a script, its commands
    edges,      \* history: the argument pairs of the union calls made so far
    unioned,    \* history: the argument pairs of the union calls that returned
    concurrent, \* Tester.concurrent: per element, its id and rank atomics
    sequential, \* Tester.sequential: the elements and ranks vectors
    handles,    \* per spawned thread: the rest of its script and its locals
    tester,     \* the Tester's position, its set_count and check()'s result
    tree        \* the UnionFindNode cells of src/src/tree.rs, with the last
                \* call made on them

\* the variables of part 1 and those of part 2, each with the nodes of
\* tree.rs, which the steps of both parts leave alone
pvars == <<cells, loc, menu, edges, unioned, tree>>
tvars == <<concurrent, sequential, handles, tester, tree>>
vars == <<cells, loc, menu, edges, unioned,
          concurrent, sequential, handles, tester, tree>>

\* the elements of the structure and the threads that share it
Elems == DOMAIN cells
Threads == DOMAIN loc

\* AUnionFind::len
len == Cardinality(DOMAIN cells)

\* AtomicEntry::load through AUnionFind::load
Load(c, element) == EntryFromWord(c[element])

\* AtomicEntry::compare_and_swap: did the cell hold exactly exp_entry?
CasSucceeds(c, index, exp_entry) == c[index] = WordFromEntry(exp_entry)

\* compare_and_swap storing the new entry whatever the cell holds
CompareAndSwapStore(c, index, exp_entry, new_entry) ==
    [c EXCEPT ![index] = WordFromEntry(new_entry)]

\* AUnionFind::compare_and_swap: the array after the attempt
CompareAndSwap(c, index, exp_entry, new_entry) ==
    IF CasSucceeds(c, index, exp_entry)
    THEN [c EXCEPT ![index] = WordFromEntry(new_entry)]
    ELSE c

\* new mapping over 0 ..= size: one entry too many
NewOneMore(size) == [e \in 0 .. size |-> WordFromEntry(Entry(e, 0))]

\* AUnionFind::new(size): every entry is Entry::new(index)
New(size) == [e \in 0 .. (size - 1) |-> WordFromEntry(Entry(e, 0))]

(***************************************************************************)
(* The forest the cells encode.                                            *)
(***************************************************************************)
\* the id field of an element's cell: its parent pointer
ParentOf(c, e) == Load(c, e).id

\* an entry is a root iff its id is its own index
IsRoot(c, e) == ParentOf(c, e) = e

\* the element reached from e by following n parent pointers
RECURSIVE Walk(_, _, _)
Walk(c, e, n) == IF n = 0 THEN e ELSE Walk(c, ParentOf(c, e), n - 1)

\* r is reachable from e by parent pointers
Reaches(c, e, r) == \E n \in 0 .. Cardinality(DOMAIN c) : Walk(c, e, n) = r

\* following parent pointers from e reaches a root
ReachesRoot(c, e) == \E r \in DOMAIN c : Reaches(c, e, r) /\ IsRoot(c, r)

\* the elements connected to those of S by parent pointers, either way round
RECURSIVE Component(_, _, _)
Component(c, S, n) ==
    IF n = 0 THEN S
    ELSE Component(c,
                   S \cup {ParentOf(c, e) : e \in S}
                     \cup {e \in DOMAIN c : ParentOf(c, e) \in S},
                   n - 1)

\* i and j are in the same set of the partition the cells encode
SameSet(c, i, j) ==
    /\ i \in DOMAIN c
    /\ j \in Component(c, {i}, Cardinality(DOMAIN c))

\* the number of sets of the partition
NumSets(c) ==
    Cardinality({Component(c, {e}, Cardinality(DOMAIN c)) : e \in DOMAIN c})

\* i and j are connected in the graph whose edges are the pairs of E
RECURSIVE EdgeComponent(_, _, _)
EdgeComponent(E, S, n) ==
    IF n = 0 THEN S
    ELSE EdgeComponent(E, S \cup UNION {ed \in E : ed \cap S # {}}, n - 1)

Connected(E, i, j) == j \in EdgeComponent(E, {i}, Cardinality(E) + 1)

(***************************************************************************)
(* The locals of a call.  The fields after calls are history, kept for     *)
(* the properties:                                                         *)
(*   start  the element find_entry was entered with                        *)
(*   reach  at find_entry's last load, the entry loaded was a root that    *)
(*          start reached by parent pointers                               *)
(*   same0  the two arguments were in the same set at the invocation       *)
(*   after  a union of the same two arguments had returned before the      *)
(*          invocation                                                     *)
(*   stale  the locals holding an entry whose cell another thread's CAS    *)
(*          has succeeded on since this thread loaded it                   *)
(*   lone   a retry happened (a failed linking CAS, a failed force CAS, a  *)
(*          repeated equiv loop) on an entry no other thread's CAS had     *)
(*          succeeded on since it was loaded                               *)
(*   apart  an equiv call: at some instant since its invocation its two    *)
(*          arguments were in different sets                               *)
(*   disturbed  a force call: another thread's CAS has changed a cell      *)
(*          since its invocation                                           *)
(*   seen   a serialization or a to_vec: per element, the entries its cell *)
(*          has held since the invocation                                  *)
(*   snaps  a serialization or a to_vec: the contents the whole array has  *)
(*          had since the invocation                                       *)
(* vec is the vector to_vec or a serialization collects.                   *)
(***************************************************************************)
IdleLocals ==
    [pc |-> "idle", op |-> "none", x |-> NoElem, y |-> NoElem,
     a_id |-> NoElem, b_id |-> NoElem, a |-> NoEntry, b |-> NoEntry,
     element |-> NoElem, parent |-> NoEntry, grandparent |-> NoEntry,
     ret |-> "none", i |-> NoElem, fparent |-> NoEntry, root |-> NoEntry,
     result |-> "none", calls |-> 0,
     start |-> NoElem, reach |-> FALSE, same0 |-> FALSE, after |-> FALSE,
     stale |-> {}, lone |-> FALSE, apart |-> FALSE, disturbed |-> FALSE,
     seen |-> <<>>, snaps |-> {}, vec |-> <<>>]

\* equiv holds the result of find(a)
EquivHasA(l) == l.op = "equiv" /\ (l.ret = "equiv_b" \/ l.pc = "equiv_load")

\* the cell the entry held by local n was loaded from
SourceCell(l, n) ==
    CASE n = "parent" -> IF l.parent # NoEntry THEN l.element ELSE NoElem
      [] n = "grandparent" ->
            IF l.grandparent # NoEntry THEN l.parent.id ELSE NoElem
      [] n = "a" -> IF l.a # NoEntry THEN l.a.id
                    ELSE IF EquivHasA(l) THEN l.a_id ELSE NoElem
      [] n = "b" -> IF l.b # NoEntry THEN l.b.id ELSE NoElem
      [] n = "fparent" -> IF l.fparent # NoEntry THEN l.i ELSE NoElem

\* another thread's CAS succeeded on cell index
Mark(l, index) ==
    [l EXCEPT !.stale = l.stale \cup
        {n \in {"parent", "grandparent", "a", "b", "fparent"} :
            SourceCell(l, n) = index}]

\* the call returns v
Finish(l, v) ==
    [IdleLocals EXCEPT !.op = l.op, !.x = l.x, !.y = l.y,
                       !.result = v, !.calls = l.calls,
                       !.reach = l.reach, !.same0 = l.same0,
                       !.after = l.after, !.lone = l.lone,
                       !.apart = l.apart, !.disturbed = l.disturbed,
                       !.seen = l.seen, !.snaps = l.snaps]

\* enter find_entry(element), to continue at k when it returns
CallFindEntry(l, element, k) ==
    [l EXCEPT !.pc = "fe_load", !.element = element, !.ret = k,
              !.parent = NoEntry, !.grandparent = NoEntry,
              !.start = element, !.reach = FALSE,
              !.stale = l.stale \ {"parent", "grandparent"}]

\* force: go on to the next index, or return after the last one; in to_vec
\* the entries are then loaded one by one
ForceNext(l) ==
    IF l.i + 1 < len
    THEN [l EXCEPT !.pc = "force_load", !.i = l.i + 1,
                   !.fparent = NoEntry, !.root = NoEntry,
                   !.element = NoElem, !.parent = NoEntry,
                   !.grandparent = NoEntry, !.ret = "none", !.stale = {}]
    ELSE IF l.op = "to_vec"
         THEN [l EXCEPT !.pc = "to_vec_load", !.i = 0,
                        !.fparent = NoEntry, !.root = NoEntry,
                        !.element = NoElem, !.parent = NoEntry,
                        !.grandparent = NoEntry, !.ret = "none",
                        !.stale = {}]
         ELSE Finish(l, "unit")

\* the call panics: the thread unwinds and makes no further step
Panic(l) == [Finish(l, "none") EXCEPT !.pc = "panicked"]

\* find_entry is left: its locals are dropped
Leave(l, pc) ==
    [l EXCEPT !.pc = pc, !.element = NoElem, !.parent = NoEntry,
              !.grandparent = NoEntry, !.ret = "none",
              !.stale = l.stale \ {"parent", "grandparent"}]

\* find_entry returns entry r to the place it was called from; s: another
\* thread's CAS has succeeded on r's cell since r was loaded
FindReturn(l, r, s) ==
    CASE l.ret = "union_a" ->
            CallFindEntry([l EXCEPT !.a = r,
                                    !.stale = IF s THEN {"a"} ELSE {}],
                          l.b_id, "union_b")
      [] l.ret = "union_b" ->
            IF l.a.id = r.id
            THEN Finish(l, FALSE)
            ELSE Leave([l EXCEPT !.b = r,
                                 !.stale = (l.stale \cap {"a"}) \cup
                                           (IF s THEN {"b"} ELSE {})],
                       "union_cas")
      [] l.ret = "find" -> Finish(l, r.id)
      [] l.ret = "equiv_a" ->
            CallFindEntry([l EXCEPT !.a_id = r.id, !.ret = "equiv_b",
                                    !.stale = IF s THEN {"a"} ELSE {}],
                          l.b_id, "equiv_b")
      [] l.ret = "equiv_b" ->
            IF l.a_id = r.id
            THEN Finish(l, TRUE)
            ELSE [Leave([l EXCEPT !.b_id = r.id], "equiv_load")
                    EXCEPT !.stale = l.stale \cap {"a"}]
      [] l.ret = "force" ->
            IF l.fparent.id = r.id
            THEN ForceNext(l)
            ELSE Leave([l EXCEPT !.root = r], "force_cas")

(***************************************************************************)
(* Calls.                                                                  *)
(***************************************************************************)
\* thread t is between two calls and its next call may be operation k
CanCall(t, k) ==
    /\ loc[t].pc = "idle"
    /\ loc[t].calls < Len(menu[t])
    /\ k \in menu[t][loc[t].calls + 1]

Begin(l, op, x, y) ==
    [l EXCEPT !.op = op, !.x = x, !.y = y, !.result = "none",
              !.calls = l.calls + 1,
              !.reach = FALSE, !.same0 = FALSE, !.after = FALSE,
              !.apart = FALSE, !.disturbed = FALSE,
              !.seen = <<>>, !.snaps = {}]

\* the history of returned unions after a step of thread t
Returned(t) ==
    unioned' = unioned \cup
        IF loc[t].pc # "idle" /\ loc'[t].pc = "idle" /\ loc'[t].op = "union"
        THEN {{loc'[t].x, loc'[t].y}}
        ELSE {}

\* the history of a call in progress (before: its locals before the step)
\* once the cells have become c; mine: the step was the call's own
Observe(before, l, c, mine) ==
    [l EXCEPT !.apart = l.apart \/ (/\ before.op = "equiv"
                                    /\ before.pc # "idle"
                                    /\ ~SameSet(c, before.x, before.y)),
              !.disturbed = l.disturbed \/ (/\ before.op = "force"
                                            /\ ~mine
                                            /\ c # cells),
              !.seen = IF before.op \in {"serialize", "to_vec"} /\ before.pc # "idle"
                       THEN [e \in DOMAIN c |-> l.seen[e] \cup {Load(c, e)}]
                       ELSE l.seen,
              !.snaps = IF before.op \in {"serialize", "to_vec"} /\ before.pc # "idle"
                        THEN l.snaps \cup {c}
                        ELSE l.snaps]

\* a step of thread t that is one compare-and-swap: t's locals become l, and
\* a success is recorded with the other threads holding an entry of the cell
CasStep(t, l, index, exp_entry, new_entry) ==
    /\ cells' = CompareAndSwap(cells, index, exp_entry, new_entry)
    /\ loc' = [u \in Threads |->
                 IF u = t THEN Observe(loc[t], l, cells', TRUE)
                 ELSE IF CasSucceeds(cells, index, exp_entry)
                      THEN Observe(loc[u], Mark(loc[u], index), cells', FALSE)
                      ELSE loc[u]]

\* union(a_id, b_id) is entered by thread t
InvokeUnion(t, x, y) ==
    /\ loc' = [loc EXCEPT ![t] =
                 CallFindEntry([Begin(loc[t], "union", x, y)
                                  EXCEPT !.a_id = x, !.b_id = y,
                                         !.same0 = SameSet(cells, x, y)],
                               x, "union_a")]
    /\ edges' = edges \cup {{x, y}}
    /\ UNCHANGED <<tvars, cells, menu, unioned>>

\* union(a_id, b_id) is invoked
CallUnion(t, x, y) == CanCall(t, "union") /\ InvokeUnion(t, x, y)

\* find(element) is entered by thread t
InvokeFind(t, x) ==
    /\ loc' = [loc EXCEPT ![t] =
                 CallFindEntry(Begin(loc[t], "find", x, NoElem), x, "find")]
    /\ UNCHANGED <<tvars, cells, menu, edges, unioned>>

\* find(element) is invoked
CallFind(t, x) == CanCall(t, "find") /\ InvokeFind(t, x)

\* equiv(a, b) is entered by thread t
InvokeEquiv(t, x, y) ==
    /\ loc' = [loc EXCEPT ![t] =
                 CallFindEntry([Begin(loc[t], "equiv", x, y)
                                  EXCEPT !.a_id = x, !.b_id = y,
                                         !.after = ({x, y} \in unioned),
                                         !.apart = ~SameSet(cells, x, y)],
                               x, "equiv_a")]
    /\ UNCHANGED <<tvars, cells, menu, edges, unioned>>

\* equiv(a, b) is invoked
CallEquiv(t, x, y) == CanCall(t, "equiv") /\ InvokeEquiv(t, x, y)

\* force() is entered by thread t, called as op: as force itself or as the
\* first statement of to_vec; both loops are empty when len is 0
InvokeForce(t, op) ==
    /\ loc' = [loc EXCEPT ![t] =
                 IF len = 0
                 THEN Finish(Begin(loc[t], op, NoElem, NoElem),
                             IF op = "to_vec" THEN <<>> ELSE "unit")
                 ELSE [Begin(loc[t], op, NoElem, NoElem)
                         EXCEPT !.pc = "force_load", !.i = 0,
                                !.seen = IF op = "to_vec"
                                         THEN [e \in Elems |-> {Load(cells, e)}]
                                         ELSE <<>>,
                                !.snaps = IF op = "to_vec" THEN {cells}
                                                           ELSE {}]]
    /\ UNCHANGED <<tvars, cells, menu, edges, unioned>>

\* force() is invoked
CallForce(t) == CanCall(t, "force") /\ InvokeForce(t, "force")

\* to_vec() is invoked
CallToVec(t) == CanCall(t, "to_vec") /\ InvokeForce(t, "to_vec")

(***************************************************************************)
(* find_entry.                                                             *)
(***************************************************************************)
\* find_entry's first load with the index taken modulo len(): no index is
\* out of bounds
FindLoadWrapping(t) ==
    /\ loc[t].pc = "fe_load"
    /\ LET l == [loc[t] EXCEPT !.element = loc[t].element % len,
                               !.start = loc[t].start % len]
           parent == Load(cells, l.element)
       IN  loc' = [loc EXCEPT ![t] =
                     IF l.element = parent.id
                     THEN FindReturn([l EXCEPT !.reach =
                                        Reaches(cells, l.start, l.element)],
                                     parent, FALSE)
                     ELSE [l EXCEPT !.pc = "fe_grandparent",
                                    !.parent = parent,
                                    !.stale = l.stale \ {"parent"}]]
    /\ Returned(t)
    /\ UNCHANGED <<tvars, cells, menu, edges>>

\* let mut parent = self.load(element); and the first loop test; load
\* indexes the slice, which panics when element is not below len()
FindLoad(t) ==
    /\ loc[t].pc = "fe_load"
    /\ LET l == loc[t]
           parent == Load(cells, l.element)
       IN  loc' = [loc EXCEPT ![t] =
                     IF l.element \notin Elems
                     THEN Panic(l)
                     ELSE IF l.element = parent.id
                     THEN FindReturn([l EXCEPT !.reach =
                                        Reaches(cells, l.start, l.element)],
                                     parent, FALSE)
                     ELSE [l EXCEPT !.pc = "fe_grandparent",
                                    !.parent = parent,
                                    !.stale = l.stale \ {"parent"}]]
    /\ Returned(t)
    /\ UNCHANGED <<tvars, cells, menu, edges>>

\* let grandparent = self.load(parent.id);
FindGrandparent(t) ==
    /\ loc[t].pc = "fe_grandparent"
    /\ LET l == loc[t]
           grandparent == Load(cells, l.parent.id)
       IN  loc' = [loc EXCEPT ![t] =
                     [l EXCEPT !.pc = "fe_cas",
                               !.grandparent = grandparent,
                               !.stale = l.stale \ {"grandparent"},
                               !.reach = /\ grandparent.id = l.parent.id
                                         /\ Reaches(cells, l.start, l.parent.id)]]
    /\ UNCHANGED <<tvars, cells, menu, edges, unioned>>

\* find_entry's locals after the body of its loop: element = parent.id;
\* parent = grandparent; and the next loop test
FindAdvance(l) ==
    IF l.parent.id = l.grandparent.id
    THEN FindReturn(l, l.grandparent, "grandparent" \in l.stale)
    ELSE [l EXCEPT !.pc = "fe_grandparent",
                   !.element = l.parent.id,
                   !.parent = l.grandparent,
                   !.grandparent = NoEntry,
                   !.stale = (l.stale \ {"parent", "grandparent"}) \cup
                             (IF "grandparent" \in l.stale
                              THEN {"parent"} ELSE {})]

\* find_entry's loop with its path-halving write left out: the loop only
\* walks up the parent pointers
FindCasNoWrite(t) ==
    /\ loc[t].pc = "fe_cas"
    /\ loc' = [loc EXCEPT ![t] = FindAdvance(loc[t])]
    /\ Returned(t)
    /\ UNCHANGED <<tvars, cells, menu, edges>>

\* self.compare_and_swap(element, parent, grandparent); and the rest of the
\* loop body
FindCas(t) ==
    /\ loc[t].pc = "fe_cas"
    /\ CasStep(t, FindAdvance(loc[t]),
               loc[t].element, loc[t].parent, loc[t].grandparent)
    /\ Returned(t)
    /\ UNCHANGED <<tvars, menu, edges>>

(***************************************************************************)
(* union.                                                                  *)
(***************************************************************************)
\* the entry the linking CAS stores, with the first root chosen on a tie
LinkNewTieFirst(a, b) == IF a.rk >= b.rk THEN a ELSE b

\* the entry the linking CAS stores, were it to keep the rank of the root
\* it links
LinkNewKeepRank(a, b) ==
    IF a.rk > b.rk THEN Entry(a.id, b.rk) ELSE Entry(b.id, a.rk)

\* the cell the linking CAS is applied to, the entry it expects there and
\* the entry it stores
LinkIndex(a, b) == IF a.rk > b.rk THEN b.id ELSE a.id
LinkExpected(a, b) == IF a.rk > b.rk THEN b ELSE a
LinkNew(a, b) == IF a.rk > b.rk THEN a ELSE b

\* union's locals after its linking CAS, were the rank increment to follow
\* every successful link
UnionAfterCasIncrements(l, ok) ==
    IF ok
    THEN [l EXCEPT !.pc = "increment_rank"]
    ELSE CallFindEntry(
             [l EXCEPT !.a_id = l.a.id, !.b_id = l.b.id,
                       !.a = NoEntry, !.b = NoEntry, !.stale = {}],
             l.a.id, "union_a")

\* union's locals after its linking CAS
UnionAfterCas(l, ok) ==
    IF ok
    THEN IF l.a.rk = l.b.rk
         THEN [l EXCEPT !.pc = "increment_rank"]
         ELSE Finish(l, TRUE)
    ELSE CallFindEntry(
             [l EXCEPT !.a_id = l.a.id, !.b_id = l.b.id,
                       !.a = NoEntry, !.b = NoEntry, !.stale = {},
                       !.lone = l.lone \/
                                (IF l.a.rk > l.b.rk THEN "b" ELSE "a")
                                    \notin l.stale],
             l.a.id, "union_a")

\* the linking CAS of union, and what follows it
UnionCas(t) ==
    /\ loc[t].pc = "union_cas"
    /\ LET l == loc[t]
           index == LinkIndex(l.a, l.b)
           exp == LinkExpected(l.a, l.b)
       IN  CasStep(t, UnionAfterCas(l, CasSucceeds(cells, index, exp)),
                   index, exp, LinkNew(l.a, l.b))
    /\ Returned(t)
    /\ UNCHANGED <<tvars, menu, edges>>

\* self.increment_rank(b); return true;
IncrementRank(t) ==
    /\ loc[t].pc = "increment_rank"
    /\ CasStep(t, Finish(loc[t], TRUE),
               loc[t].b.id, loc[t].b, inc_rank(loc[t].b))
    /\ Returned(t)
    /\ UNCHANGED <<tvars, menu, edges>>

(***************************************************************************)
(* equiv.                                                                  *)
(***************************************************************************)
\* if self.load(a).id == a { return false; } else the loop is repeated
EquivLoad(t) ==
    /\ loc[t].pc = "equiv_load"
    /\ LET l == loc[t] IN
       loc' = [loc EXCEPT ![t] =
                 IF Load(cells, l.a_id).id = l.a_id
                 THEN Finish(l, FALSE)
                 ELSE CallFindEntry(
                          [l EXCEPT !.stale = {},
                                    !.lone = l.lone \/ "a" \notin l.stale],
                          l.a_id, "equiv_a")]
    /\ UNCHANGED <<tvars, cells, menu, edges, unioned>>

(***************************************************************************)
(* force.                                                                  *)
(***************************************************************************)
\* let parent = self.load(i); if i == parent.id { break }
ForceLoad(t) ==
    /\ loc[t].pc = "force_load"
    /\ LET l == loc[t]
           parent == Load(cells, l.i)
       IN  loc' = [loc EXCEPT ![t] =
                     IF l.i = parent.id
                     THEN ForceNext(l)
                     ELSE CallFindEntry([l EXCEPT !.fparent = parent,
                                                  !.stale = {}],
                                        parent.id, "force")]
    /\ UNCHANGED <<tvars, cells, menu, edges, unioned>>

\* force's locals after its CAS, were the loop repeated after a success too
ForceAfterCasRetry(l, ok) ==
    [l EXCEPT !.pc = "force_load", !.fparent = NoEntry,
              !.root = NoEntry, !.stale = {},
              !.lone = l.lone \/ "fparent" \notin l.stale]

\* force's locals after its CAS: break on success, else repeat the loop
ForceAfterCas(l, ok) ==
    IF ok
    THEN ForceNext(l)
    ELSE [l EXCEPT !.pc = "force_load", !.fparent = NoEntry,
                   !.root = NoEntry, !.stale = {},
                   !.lone = l.lone \/ "fparent" \notin l.stale]

\* force going on to the next index without its CAS
ForceCasNoWrite(t) ==
    /\ loc[t].pc = "force_cas"
    /\ loc' = [loc EXCEPT ![t] = ForceNext(loc[t])]
    /\ UNCHANGED <<tvars, cells, menu, edges, unioned>>

\* self.compare_and_swap(i, parent, root)
ForceCas(t) ==
    /\ loc[t].pc = "force_cas"
    /\ LET l == loc[t] IN
       CasStep(t, ForceAfterCas(l, CasSucceeds(cells, l.i, l.fparent)),
               l.i, l.fparent, l.root)
    /\ UNCHANGED <<tvars, menu, edges, unioned>>

(***************************************************************************)
(* to_vec, len, is_empty.                                                  *)
(***************************************************************************)
\* to_vec after its force, loading for each slot the entry of the slot
\* after it
ToVecLoadNeighbour(t) ==
    /\ loc[t].pc = "to_vec_load"
    /\ LET l == loc[t]
           v == Append(l.vec, Load(cells, (l.i + 1) % len).id)
       IN  loc' = [loc EXCEPT ![t] =
                     IF l.i + 1 < len
                     THEN [l EXCEPT !.i = l.i + 1, !.vec = v]
                     ELSE Finish(l, v)]
    /\ UNCHANGED <<tvars, cells, menu, edges, unioned>>

\* to_vec after its force: entry.load(SeqCst).id of the next entry
ToVecLoad(t) ==
    /\ loc[t].pc = "to_vec_load"
    /\ LET l == loc[t]
           v == Append(l.vec, Load(cells, l.i).id)
       IN  loc' = [loc EXCEPT ![t] =
                     IF l.i + 1 < len
                     THEN [l EXCEPT !.i = l.i + 1, !.vec = v]
                     ELSE Finish(l, v)]
    /\ UNCHANGED <<tvars, cells, menu, edges, unioned>>

\* len() is called by thread t and returns
InvokeLen(t) ==
    /\ loc' = [loc EXCEPT ![t] =
                 Finish(Begin(loc[t], "len", NoElem, NoElem), len)]
    /\ UNCHANGED <<tvars, cells, menu, edges, unioned>>

\* is_empty() is called by thread t and returns
InvokeIsEmpty(t) ==
    /\ loc' = [loc EXCEPT ![t] =
                 Finish(Begin(loc[t], "is_empty", NoElem, NoElem), len = 0)]
    /\ UNCHANGED <<tvars, cells, menu, edges, unioned>>

(***************************************************************************)
(* Serialize and Deserialize: the structure is written as the sequence of  *)
(* its entries, each entry as its two fields id and rk in that order.      *)
(***************************************************************************)
\* Entry::serialize writing the id field only, the rank as 0
SerializeEntryIdOnly(e) == <<e.id, 0>>

\* Entry::serialize (derived): the fields id, rk
SerializeEntry(e) == <<e.id, e.rk>>

\* Entry::deserialize reading the two fields the wrong way round
DeserializeEntrySwapped(p) == Entry(p[2], p[1])

\* Entry::deserialize (derived): the fields are taken as they are written
DeserializeEntry(p) == Entry(p[1], p[2])

\* AUnionFind's derived Deserialize: each element through
\* AtomicEntry::deserialize, Entry::deserialize and then AtomicEntry::from
Deserialize(seq) ==
    [e \in 0 .. (Len(seq) - 1) |-> WordFromEntry(DeserializeEntry(seq[e + 1]))]

\* AUnionFind's derived Serialize is entered by thread t: the entries are
\* serialized one by one, in index order
InvokeSerialize(t) ==
    /\ loc' = [loc EXCEPT ![t] =
                 IF len = 0
                 THEN Finish(Begin(loc[t], "serialize", NoElem, NoElem), <<>>)
                 ELSE [Begin(loc[t], "serialize", NoElem, NoElem)
                         EXCEPT !.pc = "serialize_load", !.i = 0,
                                !.seen = [e \in Elems |-> {Load(cells, e)}],
                                !.snaps = {cells}]]
    /\ UNCHANGED <<tvars, cells, menu, edges, unioned>>

\* serialization is invoked
CallSerialize(t) == CanCall(t, "serialize") /\ InvokeSerialize(t)

\* AtomicEntry::serialize of the next entry: one load, then Entry::serialize
SerializeLoad(t) ==
    /\ loc[t].pc = "serialize_load"
    /\ LET l == loc[t]
           entry == Load(cells, l.i)
           v == Append(l.vec, SerializeEntry(entry))
       IN  loc' = [loc EXCEPT ![t] =
                     IF l.i + 1 < len
                     THEN [l EXCEPT !.i = l.i + 1, !.vec = v]
                     ELSE Finish(l, v)]
    /\ UNCHANGED <<tvars, cells, menu, edges, unioned>>

(***************************************************************************)
(* The specification: NumThreads threads share new(Size) and each makes    *)
(* MaxCalls calls of any operation with any arguments.                     *)
(***************************************************************************)
\* the state after construction
Start(size, m) ==
    /\ cells = New(size)
    /\ menu = m
    /\ loc = [t \in DOMAIN m |-> IdleLocals]
    /\ edges = {}
    /\ unioned = {}
    /\ tree = <<>>
    /\ concurrent = <<>>
    /\ sequential = <<>>
    /\ handles = <<>>
    /\ tester = [phase |-> "none"]

Init == Start(Size, [t \in 1 .. NumThreads |-> [k \in 1 .. MaxCalls |-> AllOps]])

\* one step of thread t
Step(t) ==
    \/ \E x \in Elems, y \in Elems : CallUnion(t, x, y)
    \/ \E x \in Elems : CallFind(t, x)
    \/ \E x \in Elems, y \in Elems : CallEquiv(t, x, y)
    \/ CallForce(t)
    \/ FindLoad(t)
    \/ FindGrandparent(t)
    \/ FindCas(t)
    \/ UnionCas(t)
    \/ IncrementRank(t)
    \/ EquivLoad(t)
    \/ ForceLoad(t)
    \/ ForceCas(t)

Next == \E t \in 1 .. NumThreads : Step(t)

Spec == Init /\ [][Next]_vars

(***************************************************************************)
(* NumThreads + 1 threads run scripts of union and find calls, as the      *)
(* threads of tests/random_async.rs do: the first NumThreads run a union   *)
(* and then a find, the last one a find.                                   *)
(***************************************************************************)
ScriptInit ==
    Start(Size, [t \in 1 .. NumThreads + 1 |->
                   IF t <= NumThreads THEN <<{"union"}, {"find"}>>
                                      ELSE <<{"find"}>>])

ScriptStep(t) ==
    \/ \E x \in Elems, y \in Elems : CallUnion(t, x, y)
    \/ \E x \in Elems : CallFind(t, x)
    \/ FindLoad(t)
    \/ FindGrandparent(t)
    \/ FindCas(t)
    \/ UnionCas(t)
    \/ IncrementRank(t)

ScriptNext == \E t \in 1 .. NumThreads + 1 : ScriptStep(t)

ScriptSpec == ScriptInit /\ [][ScriptNext]_vars

(***************************************************************************)
(* NumThreads + 1 threads share new(Size): each runs a union, and the      *)
(* first then runs force.                                                  *)
(***************************************************************************)
ForceInit ==
    Start(Size, [t \in 1 .. NumThreads + 1 |->
                   IF t = 1 THEN <<{"union"}, {"force"}>> ELSE <<{"union"}>>])

ForceStep(t) ==
    \/ \E x \in Elems, y \in Elems : CallUnion(t, x, y)
    \/ CallForce(t)
    \/ FindLoad(t)
    \/ FindGrandparent(t)
    \/ FindCas(t)
    \/ UnionCas(t)
    \/ IncrementRank(t)
    \/ ForceLoad(t)
    \/ ForceCas(t)

ForceNextStep == \E t \in 1 .. NumThreads + 1 : ForceStep(t)

ForceSpec == ForceInit /\ [][ForceNextStep]_vars

(***************************************************************************)
(* The threads of Spec where thread 1 keeps running: whenever it can take  *)
(* a step it eventually takes one.  The other threads may stop anywhere,   *)
(* in the middle of a call too.  The threads start alike, so thread 1      *)
(* stands for any of them.                                                 *)
(***************************************************************************)
Fairness == WF_vars(Step(1))

LiveSpec == Init /\ [][Next]_vars /\ Fairness

\* no call is in progress
Quiescent == \A t \in Threads : loc[t].pc = "idle"

\* the other threads take no step
OthersPause(t) == \A u \in Threads \ {t} : loc'[u] = loc[u]

(***************************************************************************)
(* Properties of the packed-word AUnionFind.                               *)
(***************************************************************************)
\* C1: once all union and find calls have returned, two elements are in the
\* same set iff they are connected in the graph whose edges are the
\* arguments of the union calls.
FinalPartitionIsComponents ==
    Quiescent =>
        \A i \in Elems, j \in Elems :
            SameSet(cells, i, j) <=> Connected(edges, i, j)

\* C3: in every reachable state, following id pointers from any element
\* reaches a self-rooted element: there is no cycle but a root's self-loop.
NoCycle == \A e \in Elems : ReachesRoot(cells, e)

\* C4: the partition only merges: two elements in the same set before a
\* step are in the same set after it.
PartitionOnlyMerges ==
    [][\A i \in Elems, j \in Elems :
           SameSet(cells, i, j) => SameSet(cells', i, j)]_vars

\* thread t's linking CAS succeeds in this step
LinkSucceeds(t) ==
    /\ loc[t].pc = "union_cas"
    /\ loc'[t].pc \in {"increment_rank", "idle"}

\* C5: a successful linking CAS joins two sets that were distinct
\* immediately before it, so that every union returning true is credited
\* with one lost set.
LinkJoinsDistinctSets ==
    [][\A t \in Threads :
           LinkSucceeds(t) => ~SameSet(cells, loc[t].a.id, loc[t].b.id)]_vars

\* C6: a union invoked when its two arguments were already in the same set
\* returns false.
UnionOfSameSetReturnsFalse ==
    \A t \in Threads :
        (loc[t].pc = "idle" /\ loc[t].op = "union" /\ loc[t].same0)
            => loc[t].result = FALSE

\* C7: an equiv(a, b) invoked after a union(a, b) has returned returns true.
EquivAfterUnionReturnsTrue ==
    \A t \in Threads :
        (loc[t].pc = "idle" /\ loc[t].op = "equiv" /\ loc[t].after)
            => loc[t].result = TRUE

\* C8: the element find(x) returns was, at the instant of find's last load,
\* self-rooted and reachable from x by parent pointers.
FindReturnsRootOfArgument ==
    \A t \in Threads :
        (loc[t].pc = "idle" /\ loc[t].op = "find") => loc[t].reach

\* C9: no operation can hang: if the other threads take only finitely many
\* further steps, every call of a thread that keeps running returns, so the
\* thread comes to rest between calls.
NoOperationHangs == (<>[][OthersPause(1)]_vars) => <>[](loc[1].pc = "idle")

\* C9, its case: thread 1 is in the loop of find_entry at an element from
\* which the parent pointers lead round a cycle and to no root.
InLoopOnCycle ==
    /\ loc[1].pc = "fe_cas"
    /\ ~ReachesRoot(cells, loc[1].element)

\* C10: whenever a union's linking CAS fails or an equiv or force loop
\* retries, another thread's CAS has succeeded on that entry since the
\* retrying call loaded it.
RetryHasConcurrentSuccess == \A t \in Threads : ~loc[t].lone

(***************************************************************************)
(* Part 2.  The sequential UnionFind of src/src/array.rs.  An operation    *)
(* gives the structure after it (uf) and what it returns (ret).            *)
(***************************************************************************)
\* UnionFind::new(size)
UfNew(size) ==
    [elements |-> [i \in 0 .. (size - 1) |-> i],
     ranks |-> [i \in 0 .. (size - 1) |-> 0]]

\* UnionFind::set_parent
UfSetParent(uf, element, parent) ==
    [uf EXCEPT !.elements[element] = parent]

\* UnionFind::increment_rank: a u8 with saturating_add(1)
UfIncrementRank(uf, element) ==
    [uf EXCEPT !.ranks[element] = IF @ < 255 THEN @ + 1 ELSE 255]

\* the loop of UnionFind::find
RECURSIVE UfFindLoop(_, _, _)
UfFindLoop(uf, element, parent) ==
    IF element = parent
    THEN [uf |-> uf, ret |-> element]
    ELSE LET grandparent == uf.elements[parent] IN
         UfFindLoop(UfSetParent(uf, element, grandparent), parent, grandparent)

\* UnionFind::find
UfFind(uf, element) == UfFindLoop(uf, element, uf.elements[element])

\* union linking its arguments themselves, without finding their roots
UfUnionRaw(uf, a0, b0) ==
    IF a0 = b0 THEN [uf |-> uf, ret |-> FALSE]
    ELSE IF uf.ranks[a0] > uf.ranks[b0]
         THEN [uf |-> UfSetParent(uf, b0, a0), ret |-> TRUE]
    ELSE IF uf.ranks[b0] > uf.ranks[a0]
         THEN [uf |-> UfSetParent(uf, a0, b0), ret |-> TRUE]
    ELSE [uf |-> UfIncrementRank(UfSetParent(uf, a0, b0), b0), ret |-> TRUE]

\* UnionFind::union
UfUnion(uf, a0, b0) ==
    LET fa == UfFind(uf, a0)
        fb == UfFind(fa.uf, b0)
        a == fa.ret
        b == fb.ret
        rank_a == fb.uf.ranks[a]
        rank_b == fb.uf.ranks[b]
    IN  IF a = b THEN [uf |-> fb.uf, ret |-> FALSE]
        ELSE IF rank_a > rank_b
             THEN [uf |-> UfSetParent(fb.uf, b, a), ret |-> TRUE]
        ELSE IF rank_b > rank_a
             THEN [uf |-> UfSetParent(fb.uf, a, b), ret |-> TRUE]
        ELSE [uf |-> UfIncrementRank(UfSetParent(fb.uf, a, b), b),
              ret |-> TRUE]

\* UnionFind::equiv
UfEquiv(uf, a, b) ==
    LET fa == UfFind(uf, a)
        fb == UfFind(fa.uf, b)
    IN  [uf |-> fb.uf, ret |-> (fa.ret = fb.ret)]

(***************************************************************************)
(* The AUnionFind of src/src/async.rs: per element an id atomic and a rank *)
(* atomic.                                                                 *)
(***************************************************************************)
\* AUnionFind::new(size)
AsyncNew(size) == [i \in 0 .. (size - 1) |-> [id |-> i, rank |-> 0]]

\* AUnionFind::parent
AsyncParent(c, element) == c[element].id

\* AUnionFind::rank
AsyncRank(c, element) == c[element].rank

\* AUnionFind::change_parent: did the compare_and_swap return old_parent?
AsyncChanges(c, element, old_parent) == c[element].id = old_parent

\* AUnionFind::change_parent: the entries after the attempt
AsyncChangeParent(c, element, old_parent, new_parent) ==
    IF AsyncChanges(c, element, old_parent)
    THEN [c EXCEPT ![element].id = new_parent]
    ELSE c

\* the loop of AUnionFind::find, run with no other thread
RECURSIVE AloneFindLoop(_, _, _)
AloneFindLoop(c, element, parent) ==
    IF element = parent
    THEN [uf |-> c, ret |-> element]
    ELSE LET grandparent == AsyncParent(c, parent) IN
         AloneFindLoop(AsyncChangeParent(c, element, parent, grandparent),
                       parent, grandparent)

\* AUnionFind::find, run with no other thread
AloneFind(c, element) == AloneFindLoop(c, element, AsyncParent(c, element))

\* AUnionFind::equiv, run with no other thread
RECURSIVE AloneEquiv(_, _, _)
AloneEquiv(c, a0, b0) ==
    LET fa == AloneFind(c, a0)
        fb == AloneFind(fa.uf, b0)
    IN  IF fa.ret = fb.ret THEN [uf |-> fb.uf, ret |-> TRUE]
        ELSE IF AsyncParent(fb.uf, fa.ret) = fa.ret
             THEN [uf |-> fb.uf, ret |-> FALSE]
        ELSE AloneEquiv(fb.uf, fa.ret, fb.ret)

(***************************************************************************)
(* The Tester of tests/random_async.rs, on smaller numbers.                *)
(***************************************************************************)
\* the length of the union-find tested on
UF_LEN == 2
\* a script has fewer commands than this
MAX_SCRIPT_LEN == 3
\* the number of threads started
CONCURRENCY == 2

\* enum Cmd
Union(i, j) == [cmd |-> "Union", i |-> i, j |-> j]
Find(i) == [cmd |-> "Find", i |-> i, j |-> NoElem]

\* Cmd::arbitrary, Script::arbitrary and MultiScript::arbitrary: what they
\* can generate
Cmds ==
    {Union(i, j) : i \in 0 .. (UF_LEN - 1), j \in 0 .. (UF_LEN - 1)}
        \cup {Find(i) : i \in 0 .. (UF_LEN - 1)}
Scripts == UNION {[1 .. n -> Cmds] : n \in 0 .. (MAX_SCRIPT_LEN - 1)}
MultiScripts == [1 .. CONCURRENCY -> Scripts]

\* Tester::execute, one command on the sequential union-find
ExecuteCmd(st, cmd) ==
    IF cmd.cmd = "Union"
    THEN LET r == UfUnion(st.uf, cmd.i, cmd.j) IN
         [uf |-> r.uf,
          set_count |-> IF r.ret THEN st.set_count - 1 ELSE st.set_count]
    ELSE [uf |-> UfFind(st.uf, cmd.i).uf, set_count |-> st.set_count]

\* Tester::execute, the commands of one script in order
RECURSIVE ExecuteScript(_, _)
ExecuteScript(st, script) ==
    IF script = <<>> THEN st
    ELSE ExecuteScript(ExecuteCmd(st, Head(script)), Tail(script))

\* Tester::execute, the scripts from the k-th on in order
RECURSIVE ExecuteScripts(_, _, _)
ExecuteScripts(st, multi_script, k) ==
    IF k > Len(multi_script) THEN st
    ELSE ExecuteScripts(ExecuteScript(st, multi_script[k]), multi_script, k + 1)

\* Tester::check from the k-th pair (i, j) on: both union-finds after it and
\* what it returns
RECURSIVE CheckFrom(_, _, _)
CheckFrom(c, s, k) ==
    IF k = UF_LEN * UF_LEN
    THEN [concurrent |-> c, sequential |-> s, ret |-> TRUE]
    ELSE LET i == k \div UF_LEN
             j == k % UF_LEN
             ce == AloneEquiv(c, i, j)
             se == UfEquiv(s, i, j)
         IN  IF ce.ret # se.ret
             THEN [concurrent |-> ce.uf, sequential |-> se.uf, ret |-> FALSE]
             ELSE CheckFrom(ce.uf, se.uf, k + 1)

\* the locals of a spawned thread that is between two commands
IdleHandle ==
    [script |-> <<>>, pc |-> "next", a |-> NoElem, b |-> NoElem,
     rank_a |-> NoElem, rank_b |-> NoElem, element |-> NoElem,
     parent |-> NoElem, grandparent |-> NoElem, ret |-> "none"]

\* the command returns
NextCmd(l) == [IdleHandle EXCEPT !.script = l.script]

\* enter find(element), to continue at k when it returns
EnterFind(l, element, k) ==
    [l EXCEPT !.pc = "find_parent", !.element = element, !.ret = k,
              !.parent = NoElem, !.grandparent = NoElem]

\* find returns r to the place it was called from
AsyncFindReturn(l, r) ==
    CASE l.ret = "find" -> NextCmd(l)
      [] l.ret = "union_a" -> EnterFind([l EXCEPT !.a = r], l.b, "union_b")
      [] l.ret = "union_b" ->
            IF l.a = r THEN NextCmd(l)
            ELSE [l EXCEPT !.b = r, !.pc = "rank_a", !.element = NoElem,
                           !.parent = NoElem, !.grandparent = NoElem,
                           !.ret = "none"]

\* Tester::new
TesterInit ==
    /\ concurrent = AsyncNew(UF_LEN)
    /\ sequential = UfNew(UF_LEN)
    /\ tester = [phase |-> "new", set_count |-> UF_LEN, verdict |-> "none"]
    /\ handles = <<>>
    /\ cells = New(0)
    /\ loc = <<>>
    /\ menu = <<>>
    /\ edges = {}
    /\ unioned = {}
    /\ tree = <<>>

\* Tester::execute up to the spawning of the threads
Execute(multi_script) ==
    /\ tester.phase = "new"
    /\ LET st == ExecuteScripts([uf |-> sequential,
                                 set_count |-> tester.set_count],
                                multi_script, 1)
       IN  /\ sequential' = st.uf
           /\ tester' = [tester EXCEPT !.phase = "spawned",
                                       !.set_count = st.set_count]
    /\ handles' = [h \in 1 .. CONCURRENCY |->
                     [IdleHandle EXCEPT !.script = multi_script[h]]]
    /\ UNCHANGED <<pvars, concurrent>>

\* a spawned thread takes the next command of its script
RunCmd(h) ==
    /\ tester.phase = "spawned"
    /\ handles[h].pc = "next"
    /\ handles[h].script # <<>>
    /\ LET l == handles[h]
           cmd == Head(l.script)
           rest == [l EXCEPT !.script = Tail(l.script)]
       IN  handles' = [handles EXCEPT ![h] =
               IF cmd.cmd = "Union"
               THEN EnterFind([rest EXCEPT !.a = cmd.i, !.b = cmd.j],
                              cmd.i, "union_a")
               ELSE EnterFind(rest, cmd.i, "find")]
    /\ UNCHANGED <<pvars, concurrent, sequential, tester>>

\* find: let mut parent = self.parent(element); and the first loop test
AsyncFindParent(h) ==
    /\ tester.phase = "spawned"
    /\ handles[h].pc = "find_parent"
    /\ LET l == handles[h]
           parent == AsyncParent(concurrent, l.element)
       IN  handles' = [handles EXCEPT ![h] =
               IF l.element = parent
               THEN AsyncFindReturn(l, l.element)
               ELSE [l EXCEPT !.pc = "find_grandparent", !.parent = parent]]
    /\ UNCHANGED <<pvars, concurrent, sequential, tester>>

\* find: let grandparent = self.parent(parent);
AsyncFindGrandparent(h) ==
    /\ tester.phase = "spawned"
    /\ handles[h].pc = "find_grandparent"
    /\ handles' = [handles EXCEPT ![h] =
           [handles[h] EXCEPT
               !.pc = "find_cas",
               !.grandparent = AsyncParent(concurrent, handles[h].parent)]]
    /\ UNCHANGED <<pvars, concurrent, sequential, tester>>

\* find: self.change_parent(element, parent, grandparent); the rest of the
\* loop body and the next loop test
AsyncFindCas(h) ==
    /\ tester.phase = "spawned"
    /\ handles[h].pc = "find_cas"
    /\ LET l == handles[h] IN
       /\ concurrent' = AsyncChangeParent(concurrent, l.element, l.parent,
                                          l.grandparent)
       /\ handles' = [handles EXCEPT ![h] =
              IF l.parent = l.grandparent
              THEN AsyncFindReturn(l, l.parent)
              ELSE [l EXCEPT !.pc = "find_grandparent",
                             !.element = l.parent,
                             !.parent = l.grandparent,
                             !.grandparent = NoElem]]
    /\ UNCHANGED <<pvars, sequential, tester>>

\* union: let rank_a = self.rank(a);
AsyncRankA(h) ==
    /\ tester.phase = "spawned"
    /\ handles[h].pc = "rank_a"
    /\ handles' = [handles EXCEPT ![h] =
           [handles[h] EXCEPT
               !.pc = "rank_b",
               !.rank_a = AsyncRank(concurrent, handles[h].a)]]
    /\ UNCHANGED <<pvars, concurrent, sequential, tester>>

\* union: let rank_b = self.rank(b);
AsyncRankB(h) ==
    /\ tester.phase = "spawned"
    /\ handles[h].pc = "rank_b"
    /\ handles' = [handles EXCEPT ![h] =
           [handles[h] EXCEPT
               !.pc = "link",
               !.rank_b = AsyncRank(concurrent, handles[h].b)]]
    /\ UNCHANGED <<pvars, concurrent, sequential, tester>>

\* union: the change_parent of the branch the ranks select, and what
\* follows it
AsyncLink(h) ==
    /\ tester.phase = "spawned"
    /\ handles[h].pc = "link"
    /\ LET l == handles[h]
           child == IF l.rank_a > l.rank_b THEN l.b ELSE l.a
           root == IF l.rank_a > l.rank_b THEN l.a ELSE l.b
       IN  /\ concurrent' = AsyncChangeParent(concurrent, child, child, root)
           /\ handles' = [handles EXCEPT ![h] =
                  IF AsyncChanges(concurrent, child, child)
                  THEN IF l.rank_a = l.rank_b
                       THEN [l EXCEPT !.pc = "increment_rank"]
                       ELSE NextCmd(l)
                  ELSE EnterFind([l EXCEPT !.rank_a = NoElem,
                                           !.rank_b = NoElem],
                                 l.a, "union_a")]
    /\ UNCHANGED <<pvars, sequential, tester>>

\* union: self.increment_rank(b); return true;
AsyncIncrementRank(h) ==
    /\ tester.phase = "spawned"
    /\ handles[h].pc = "increment_rank"
    /\ concurrent' = [concurrent EXCEPT ![handles[h].b].rank = @ + 1]
    /\ handles' = [handles EXCEPT ![h] = NextCmd(@)]
    /\ UNCHANGED <<pvars, sequential, tester>>

\* Tester::execute: every handle is joined
Join ==
    /\ tester.phase = "spawned"
    /\ \A h \in DOMAIN handles :
           handles[h].pc = "next" /\ handles[h].script = <<>>
    /\ tester' = [tester EXCEPT !.phase = "joined"]
    /\ UNCHANGED <<pvars, concurrent, sequential, handles>>

\* Tester::check
Check ==
    /\ tester.phase = "joined"
    /\ LET r == CheckFrom(concurrent, sequential, 0) IN
       /\ concurrent' = r.concurrent
       /\ sequential' = r.sequential
       /\ tester' = [tester EXCEPT !.phase = "checked", !.verdict = r.ret]
    /\ UNCHANGED <<pvars, handles>>

\* one step of spawned thread h
HandleStep(h) ==
    \/ RunCmd(h)
    \/ AsyncFindParent(h)
    \/ AsyncFindGrandparent(h)
    \/ AsyncFindCas(h)
    \/ AsyncRankA(h)
    \/ AsyncRankB(h)
    \/ AsyncLink(h)
    \/ AsyncIncrementRank(h)

TesterNext ==
    \/ \E multi_script \in MultiScripts : Execute(multi_script)
    \/ \E h \in 1 .. CONCURRENCY : HandleStep(h)
    \/ Join
    \/ Check

TesterSpec == TesterInit /\ [][TesterNext]_vars

\* C2: after the threads have run their scripts on the shared AUnionFind
\* and have been joined, equiv(i, j) on it equals equiv(i, j) on the
\* sequential UnionFind that ran the same scripts, for every pair i, j:
\* Tester::check returns true.
ConcurrentSimulatesSequential ==
    tester.phase = "checked" => tester.verdict = TRUE


(***************************************************************************)
(* Properties of equiv, of the roots and of the ranks.                     *)
(***************************************************************************)
\* thread t's call of operation op returns in this step
Returns(t, op) ==
    /\ loc[t].pc # "idle"
    /\ loc'[t].pc = "idle"
    /\ loc'[t].op = op

\* C11: equiv is linearizable against concurrent unions: it returns true
\* only if its arguments are in the same set when it returns, and false only
\* if at some instant between its invocation and its return they were in
\* different sets.
EquivIsLinearizable ==
    [][\A t \in Threads :
         Returns(t, "equiv") =>
             /\ loc'[t].result = TRUE
                    => SameSet(cells', loc'[t].x, loc'[t].y)
             /\ loc'[t].result = FALSE => loc'[t].apart]_vars


(***************************************************************************)
(* A call that runs with no other call in progress, as one computation on  *)
(* the cells: the array after the call and what the call returns.          *)
(***************************************************************************)
\* find_entry's loop, entered with element and its loaded parent
RECURSIVE SoloFindLoop(_, _, _)
SoloFindLoop(c, element, parent) ==
    IF element = parent.id
    THEN [uf |-> c, ret |-> parent]
    ELSE LET grandparent == Load(c, parent.id)
         IN  SoloFindLoop(CompareAndSwap(c, element, parent, grandparent),
                          parent.id, grandparent)

\* find_entry(element)
SoloFindEntry(c, element) == SoloFindLoop(c, element, Load(c, element))

\* find(element)
SoloFind(c, element) ==
    LET r == SoloFindEntry(c, element) IN [uf |-> r.uf, ret |-> r.ret.id]

\* equiv comparing the root of a with b itself
SoloEquivNoFindB(c, a0, b0) ==
    LET fa == SoloFind(c, a0)
    IN  [uf |-> fa.uf, ret |-> fa.ret = b0]

\* equiv(a, b)
RECURSIVE SoloEquiv(_, _, _)
SoloEquiv(c, a0, b0) ==
    LET fa == SoloFind(c, a0)
        fb == SoloFind(fa.uf, b0)
    IN  IF fa.ret = fb.ret THEN [uf |-> fb.uf, ret |-> TRUE]
        ELSE IF Load(fb.uf, fa.ret).id = fa.ret
             THEN [uf |-> fb.uf, ret |-> FALSE]
             ELSE SoloEquiv(fb.uf, fa.ret, fb.ret)

(***************************************************************************)
(* NumThreads threads share new(Size + 1): the first runs a union and     *)
(* then a union or a find, the others a union and then a find.             *)
(***************************************************************************)
TrioInit ==
    Start(Size + 1,
          [t \in 1 .. NumThreads |->
               IF t = 1 THEN <<{"union"}, {"union", "find"}>>
                        ELSE <<{"union"}, {"find"}>>])

TrioNext == \E t \in 1 .. NumThreads : ScriptStep(t)

TrioSpec == TrioInit /\ [][TrioNext]_vars

\* C12: in a state with no call in progress, equiv is an equivalence
\* relation: equiv(a, a) is true, equiv(b, a) after equiv(a, b) returns what
\* equiv(a, b) returned, and equiv(a, c) is true after equiv(a, b) and
\* equiv(b, c) have returned true.
EquivIsEquivalence ==
    Quiescent =>
        \A a \in Elems, b \in Elems :
            LET ab == SoloEquiv(cells, a, b)
                ba == SoloEquiv(ab.uf, b, a)
            IN  /\ SoloEquiv(cells, a, a).ret
                /\ SoloEquiv(cells, b, a).ret = ab.ret
                /\ ba.ret = ab.ret
                /\ \A c \in Elems :
                       LET bc == SoloEquiv(ab.uf, b, c)
                       IN  /\ ab.ret /\ bc.ret
                               => SoloEquiv(bc.uf, a, c).ret
                           /\ ab.ret /\ SoloEquiv(cells, b, c).ret
                               => SoloEquiv(cells, a, c).ret

\* C12 witness: no call is in progress, the racing unions have left a cycle
\* of two elements, and the third element is in a set of its own
QuiescentWithCycle ==
    /\ Quiescent
    /\ \E a \in Elems, b \in Elems, c \in Elems :
           /\ a # b
           /\ ParentOf(cells, a) = b
           /\ ParentOf(cells, b) = a
           /\ IsRoot(cells, c)


\* C13: an element that has stopped being a root never becomes a root
\* again: no step sets the id of a cell back to its own index.
NonRootStaysNonRoot ==
    [][\A e \in Elems : ~IsRoot(cells, e) => ~IsRoot(cells', e)]_vars

\* the entries a call holds in its locals
HeldEntries(l) ==
    {l.a, l.b, l.parent, l.grandparent, l.fparent, l.root} \ {NoEntry}

\* the indices a call holds in its locals
HeldIndices(l) == {l.a_id, l.b_id, l.element, l.i} \ {NoElem}

\* C14: every entry's id lies in [0, N), and so does every index a call in
\* progress loads from or applies a CAS to.
IdsInRange ==
    /\ \A e \in Elems : ParentOf(cells, e) \in 0 .. len - 1
    /\ \A t \in Threads :
           /\ HeldIndices(loc[t]) \subseteq 0 .. len - 1
           /\ \A en \in HeldEntries(loc[t]) : en.id \in 0 .. len - 1

\* C14 witness: a rank increment has stored an entry in the cell of a root
\* that has a child
IncrementedRoot ==
    \E e \in Elems, r \in Elems :
        /\ e # r
        /\ ParentOf(cells, e) = r
        /\ IsRoot(cells, r)
        /\ Load(cells, r).rk = 1

(***************************************************************************)
(* NumThreads threads share new(Size + 2) and run unions only: the first   *)
(* two of them, the others one.  Four elements let a root reach rank 2.    *)
(***************************************************************************)
QuadInit ==
    Start(Size + 2,
          [t \in 1 .. NumThreads |->
               IF t = 1 THEN <<{"union"}, {"union"}>> ELSE <<{"union"}>>])

QuadStep(t) ==
    \/ \E x \in Elems, y \in Elems : CallUnion(t, x, y)
    \/ FindLoad(t)
    \/ FindGrandparent(t)
    \/ FindCas(t)
    \/ UnionCas(t)
    \/ IncrementRank(t)

QuadNext == \E t \in 1 .. NumThreads : QuadStep(t)

QuadSpec == QuadInit /\ [][QuadNext]_vars

\* C15: while an element remains a root its rank never decreases: a step
\* that leaves a root a root leaves its rank equal or larger.
RootRankNeverDecreases ==
    [][\A e \in Elems :
         IsRoot(cells, e) /\ IsRoot(cells', e)
             => Load(cells', e).rk >= Load(cells, e).rk]_vars

\* C15 witness: the rank increment of a union is about to be applied to a
\* cell that still holds the root of rank 1 the union loaded
IncrementOfRoot ==
    \E t \in Threads :
        /\ loc[t].pc = "increment_rank"
        /\ loc[t].b.rk = 1
        /\ Load(cells, loc[t].b.id) = loc[t].b


\* the length of the parent-pointer path from e to the root r it reaches
Depth(c, e, r) ==
    CHOOSE n \in 0 .. Cardinality(DOMAIN c) :
        /\ Walk(c, e, n) = r
        /\ \A m \in 0 .. n - 1 : Walk(c, e, m) # r

\* a union has linked two roots of equal rank and has not yet applied its
\* rank increment
IncrementPending == \E t \in Threads : loc[t].pc = "increment_rank"

\* C16: the rank stored in a root's entry is an upper bound on the height of
\* its tree, the longest parent-pointer path from an element to that root,
\* in every reachable state; stated here for the states in which no union
\* is between its linking CAS and its rank increment.
RankBoundsHeight ==
    ~IncrementPending =>
        \A r \in Elems, e \in Elems :
            IsRoot(cells, r) /\ Reaches(cells, e, r)
                => Depth(cells, e, r) <= Load(cells, r).rk


(***************************************************************************)
(* One thread constructs a structure and runs a script on it, as the       *)
(* tests of concurrent.rs do.  A script is a sequence of commands; its     *)
(* first command is the construction, which Init has already run.          *)
(***************************************************************************)
\* the largest structure and the longest script that are enumerated
MaxSeqSize == 3
MaxSeqLen == 2

\* max_size one too small
max_size_less == ID_MAX - 1

\* AUnionFind::max_size
max_size == ID_MAX

\* the debug assertions of Entry::with_rank
WithRankAsserts(id, rk) == id < ID_MAX /\ rk < RK_MAX

\* new(size) panics: its assertion fails, or an assertion of Entry::new on
\* one of the ids 0 .. size - 1 (the first and the last are looked at: the
\* assertion on an id holds if it holds on a larger one)
NewPanics(size) ==
    \/ ~(size <= max_size)
    \/ \E id \in {0, size - 1} \cap (0 .. size - 1) : ~WithRankAsserts(id, 0)

\* the array new(size) builds; a structure of more than MaxBuilt elements
\* is not enumerated: of such a construction only the outcome is kept
MaxBuilt == 8
Built(size) == IF size <= MaxBuilt THEN New(size) ELSE New(0)

\* the commands on a structure of size elements
SeqCmds(size) ==
    LET E == 0 .. size - 1
    IN  {<<"union", x, y>> : x \in E, y \in E}
          \cup {<<"find", x>> : x \in E}
          \cup {<<"equiv", x, y>> : x \in E, y \in E}
          \cup {<<"force">>, <<"to_vec">>, <<"len">>, <<"is_empty">>}

\* what a test asserts of a command's result: that it is v, or nothing
Is(v) == <<"is", v>>
Unasserted == <<"any">>

\* tests::len
TestLen == [size |-> 5, script |-> <<<<"len">>>>, expect |-> <<Is(5)>>]

\* tests::union (the result of its union is not asserted)
TestUnion ==
    [size |-> 8,
     script |-> <<<<"equiv", 0, 1>>, <<"union", 0, 1>>, <<"equiv", 0, 1>>>>,
     expect |-> <<Is(FALSE), Unasserted, Is(TRUE)>>]

\* tests::unions
TestUnions ==
    [size |-> 8,
     script |-> <<<<"union", 0, 1>>, <<"union", 1, 2>>, <<"union", 4, 3>>,
                  <<"union", 3, 2>>, <<"union", 0, 3>>,
                  <<"equiv", 0, 1>>, <<"equiv", 0, 2>>, <<"equiv", 0, 3>>,
                  <<"equiv", 0, 4>>, <<"equiv", 0, 5>>,
                  <<"union", 5, 3>>, <<"equiv", 0, 5>>,
                  <<"union", 6, 7>>, <<"equiv", 6, 7>>, <<"equiv", 5, 7>>,
                  <<"union", 0, 7>>, <<"equiv", 5, 7>>>>,
     expect |-> <<Is(TRUE), Is(TRUE), Is(TRUE), Is(TRUE), Is(FALSE),
                  Is(TRUE), Is(TRUE), Is(TRUE), Is(TRUE), Is(FALSE),
                  Is(TRUE), Is(TRUE), Is(TRUE), Is(TRUE), Is(FALSE),
                  Is(TRUE), Is(TRUE)>>]

\* tests::changed
TestChanged ==
    [size |-> 8,
     script |-> <<<<"union", 2, 3>>, <<"union", 0, 1>>, <<"union", 1, 3>>,
                  <<"union", 0, 2>>>>,
     expect |-> <<Is(TRUE), Is(TRUE), Is(TRUE), Is(FALSE)>>]

\* tests::to_vec (the results of its unions are not asserted)
TestToVec ==
    [size |-> 6,
     script |-> <<<<"to_vec">>, <<"union", 0, 1>>, <<"to_vec">>,
                  <<"union", 2, 3>>, <<"to_vec">>, <<"union", 1, 3>>,
                  <<"to_vec">>>>,
     expect |-> <<Is(<<0, 1, 2, 3, 4, 5>>), Unasserted, Is(<<1, 1, 2, 3, 4, 5>>),
                  Unasserted, Is(<<1, 1, 3, 3, 4, 5>>), Unasserted,
                  Is(<<3, 3, 3, 3, 4, 5>>)>>]

Tests == {TestLen, TestUnion, TestUnions, TestChanged, TestToVec}

\* the runs: the tests, every script of at most MaxSeqLen commands on every
\* structure of at most MaxSeqSize elements, and the constructions at the
\* capacity boundary
SeqRuns ==
    {[size |-> T.size, script |-> T.script] : T \in Tests}
      \cup UNION {{[size |-> n, script |-> sc] :
                      sc \in UNION {[1 .. k -> SeqCmds(n)] :
                                        k \in 0 .. MaxSeqLen}} :
                  n \in 0 .. MaxSeqSize}
      \cup {[size |-> n, script |-> <<>>] : n \in {max_size, max_size + 1}}

\* the state after let uf = AUnionFind::new(size), or after its panic, which
\* ends the run
SeqStart(size, script) ==
    /\ cells = IF NewPanics(size) THEN New(0) ELSE Built(size)
    /\ menu = <<IF NewPanics(size) THEN <<<<"new", size>>>>
                ELSE <<<<"new", size>>>> \o script>>
    /\ loc = <<[IdleLocals EXCEPT
                  !.op = "new", !.x = size, !.calls = 1,
                  !.result = IF NewPanics(size) THEN "panic" ELSE "unit"]>>
    /\ edges = {}
    /\ unioned = {}
    /\ tree = <<>>
    /\ concurrent = <<>>
    /\ sequential = <<>>
    /\ handles = <<>>
    /\ tester = [phase |-> "none"]

SeqInit == \E run \in SeqRuns : SeqStart(run.size, run.script)

\* the thread runs the next command of its script
ScriptCall(t) ==
    /\ loc[t].pc = "idle"
    /\ loc[t].calls < Len(menu[t])
    /\ LET cmd == menu[t][loc[t].calls + 1]
       IN  CASE cmd[1] = "union" -> InvokeUnion(t, cmd[2], cmd[3])
             [] cmd[1] = "find" -> InvokeFind(t, cmd[2])
             [] cmd[1] = "equiv" -> InvokeEquiv(t, cmd[2], cmd[3])
             [] cmd[1] = "force" -> InvokeForce(t, "force")
             [] cmd[1] = "to_vec" -> InvokeForce(t, "to_vec")
             [] cmd[1] = "len" -> InvokeLen(t)
             [] cmd[1] = "is_empty" -> InvokeIsEmpty(t)

SeqStep(t) ==
    \/ ScriptCall(t)
    \/ FindLoad(t)
    \/ FindGrandparent(t)
    \/ FindCas(t)
    \/ UnionCas(t)
    \/ IncrementRank(t)
    \/ EquivLoad(t)
    \/ ForceLoad(t)
    \/ ForceCas(t)
    \/ ToVecLoad(t)

SeqNext == \E t \in 1 .. 1 : SeqStep(t)

SeqSpec == SeqInit /\ [][SeqNext]_vars

\* the assertions of test T hold: a command of its script has returned what
\* the test expects of it
TestPasses(T) ==
    /\ menu[1] = <<<<"new", T.size>>>> \o T.script
    /\ loc[1].pc = "idle"
    /\ loc[1].calls > 1
    => \/ T.expect[loc[1].calls - 1] = Unasserted
       \/ T.expect[loc[1].calls - 1] = Is(loc[1].result)

\* C17: run sequentially, a union of two roots of equal rank makes the root
\* of its first argument point to the root of its second argument and
\* raises the rank of the latter by one; and the to_vec test passes: from
\* new(6), to_vec() is [0,1,2,3,4,5], after union(0,1) [1,1,2,3,4,5], after
\* union(2,3) [1,1,3,3,4,5], after union(1,3) [3,3,3,3,4,5].
TieLinksFirstUnderSecond ==
    [][/\ \A t \in Threads :
            /\ loc[t].pc = "union_cas" /\ loc[t].a.rk = loc[t].b.rk
                   => /\ loc'[t].pc = "increment_rank"
                      /\ Load(cells', loc[t].a.id) = loc[t].b
            /\ loc[t].pc = "increment_rank"
                   => /\ Load(cells', loc[t].b.id) =
                             Entry(loc[t].b.id, loc[t].b.rk + 1)
                      /\ ParentOf(cells', loc[t].a.id) = loc[t].b.id
                      /\ loc'[t].result = TRUE
       /\ TestPasses(TestToVec)']_vars

\* C17 witness: the to_vec test has run its last to_vec, after union(1, 3)
\* joined two roots of rank 1
ToVecTestDone ==
    /\ menu[1] = <<<<"new", TestToVec.size>>>> \o TestToVec.script
    /\ loc[1].pc = "idle"
    /\ loc[1].calls = Len(menu[1])
    /\ Load(cells, 3).rk = 2


\* the size the run's structure was constructed with
SizeArg == menu[1][1][2]

\* C18: new(size) with size <= max_size() yields a structure with
\* len() = size and is_empty() iff size = 0, in which every entry is its own
\* index with rank 0, so that find(i) returns i and equiv(i, j) returns
\* true iff i = j; and len() is size whatever calls have been made since.
NewBuildsSingletons ==
    ~NewPanics(SizeArg) /\ SizeArg <= MaxBuilt =>
        /\ len = SizeArg
        /\ loc[1].op = "new" =>
               \A e \in Elems : Load(cells, e) = Entry(e, 0)
        /\ loc[1].pc = "idle" =>
               /\ loc[1].op = "len" => loc[1].result = SizeArg
               /\ loc[1].op = "is_empty" => loc[1].result = (SizeArg = 0)
               /\ loc[1].op = "find" /\ loc[1].calls = 2
                      => loc[1].result = loc[1].x
               /\ loc[1].op = "equiv" /\ loc[1].calls = 2
                      => loc[1].result = (loc[1].x = loc[1].y)

\* C18 witness: len() has returned after a union that linked two elements
LenAfterUnion ==
    /\ loc[1].pc = "idle"
    /\ loc[1].op = "len"
    /\ loc[1].calls = 3
    /\ \E e \in Elems : ~IsRoot(cells, e)

\* C19: new(size) panics iff size > max_size(), which is 2^ID_BITS: so
\* new(max_size()) succeeds and new(max_size() + 1) panics; and no other
\* operation fails for capacity: the entry a rank increment builds passes
\* the assertions of Entry::with_rank, and every index held is in the array.
NewPanicsIffOverCapacity ==
    /\ loc[1].op = "new" =>
           (loc[1].result = "panic" <=> SizeArg > Pow2(ID_BITS))
    /\ loc[1].pc = "increment_rank" =>
           WithRankAsserts(loc[1].b.id, loc[1].b.rk + 1)
    /\ HeldIndices(loc[1]) \subseteq 0 .. len - 1

\* C19 witness: new(max_size()) has returned without a panic
NewAtCapacity ==
    /\ loc[1].op = "new"
    /\ loc[1].x = Pow2(ID_BITS)
    /\ loc[1].result = "unit"


\* force taking the entry of the parent's cell for the root: it compresses
\* by one level only
RECURSIVE SoloForceOneLevel(_, _)
SoloForceOneLevel(c, i) ==
    IF i >= Cardinality(DOMAIN c) THEN c
    ELSE LET parent == Load(c, i)
             root == Load(c, parent.id)
         IN  IF i = parent.id \/ parent.id = root.id
             THEN SoloForceOneLevel(c, i + 1)
             ELSE SoloForceOneLevel(CompareAndSwap(c, i, parent, root), i + 1)

\* force() run with no other call in progress: the loop body for index i
\* and for the indices after it
RECURSIVE SoloForceFrom(_, _)
SoloForceFrom(c, i) ==
    IF i >= Cardinality(DOMAIN c) THEN c
    ELSE LET parent == Load(c, i) IN
         IF i = parent.id THEN SoloForceFrom(c, i + 1)
         ELSE LET r == SoloFindEntry(c, parent.id) IN
              IF parent.id = r.ret.id THEN SoloForceFrom(r.uf, i + 1)
              ELSE IF CasSucceeds(r.uf, i, parent)
                   THEN SoloForceFrom(
                            CompareAndSwap(r.uf, i, parent, r.ret), i + 1)
                   ELSE SoloForceFrom(r.uf, i)

\* to_vec() run with no other call in progress
SoloToVec(c) ==
    LET f == SoloForceFrom(c, 0)
    IN  [uf |-> f,
         ret |-> [k \in 1 .. Cardinality(DOMAIN c) |-> Load(f, k - 1).id]]

\* C20: when force() has returned and no other thread has changed a cell
\* since its invocation, every root points to itself and every other
\* element points directly at the root of its set, and to_vec()[i] is
\* find(i) for every i; the same holds of the vector a to_vec() returned.
ForcePointsAtRoots ==
    \A t \in Threads :
        /\ loc[t].pc = "idle"
        /\ loc[t].op \in {"force", "to_vec"}
        /\ ~loc[t].disturbed
        => /\ \A e \in Elems :
                  /\ IsRoot(cells, ParentOf(cells, e))
                  /\ SameSet(cells, e, ParentOf(cells, e))
           /\ LET v == SoloToVec(cells)
              IN  \A e \in Elems : v.ret[e + 1] = SoloFind(v.uf, e).ret
           /\ loc[t].op = "to_vec" =>
                  \A e \in Elems :
                      loc[t].result[e + 1] = SoloFind(cells, e).ret

\* C20 witness: a force has returned after its CAS made an element point at
\* its root: the element's parent was not a root before
ForceCompressed ==
    /\ loc[1].pc = "idle"
    /\ loc[1].op = "to_vec"
    /\ loc[1].calls = 8
    /\ ParentOf(cells, 0) = 3


(***************************************************************************)
(* Properties of force, to_vec and path compression.                       *)
(***************************************************************************)
\* the id fields of the cells
Ids(c) == [e \in DOMAIN c |-> ParentOf(c, e)]

\* C21: force and to_vec are idempotent: with no call in progress and no
\* union in between, a second force() changes no entry's id, and a second
\* to_vec(), and a to_vec() after a find or an equiv, return the vector the
\* first to_vec() returned.
ForceIsIdempotent ==
    Quiescent =>
        LET f1 == SoloForceFrom(cells, 0)
            v1 == SoloToVec(cells)
            v2 == SoloToVec(v1.uf)
        IN  /\ Ids(SoloForceFrom(f1, 0)) = Ids(f1)
            /\ v2.ret = v1.ret
            /\ SoloToVec(v2.uf).ret = v1.ret
            /\ \A x \in Elems :
                   /\ SoloToVec(SoloFind(v1.uf, x).uf).ret = v1.ret
                   /\ \A y \in Elems :
                          SoloToVec(SoloEquiv(v1.uf, x, y).uf).ret = v1.ret

\* C21 witness: no call is in progress and some element is three parent
\* pointers away from its root
QuiescentDeepChain ==
    /\ Quiescent
    /\ \E e \in Elems :
           /\ ReachesRoot(cells, e)
           /\ ~IsRoot(cells, Walk(cells, e, 2))


\* thread t applies the CAS of find_entry or of force in this step
CompressionCas(t) ==
    /\ loc[t].pc \in {"fe_cas", "force_cas"}
    /\ loc'[t].pc # loc[t].pc

\* C22: path compression is only an optimization: the CAS a find, an equiv,
\* a force or a to_vec issues leaves the partition as it was, whatever the
\* other threads' unions do.
CompressionKeepsPartition ==
    [][\A t \in Threads :
         CompressionCas(t) /\ loc[t].op \in {"find", "equiv", "force", "to_vec"}
             => \A i \in Elems, j \in Elems :
                    SameSet(cells, i, j) <=> SameSet(cells', i, j)]_vars


(***************************************************************************)
(* One AtomicEntry on its own: entries are packed into it and loaded from  *)
(* it.  The cell is cells[0]; thread 1's local a is the entry packed last  *)
(* and its local b the entry loaded since.  The ids are those whose words  *)
(* the checker's integers can hold: below 2^(ID_BITS - 1).                 *)
(***************************************************************************)
CodecIds == {0, 1, 2, Pow2(ID_BITS - 1) - 2, Pow2(ID_BITS - 1) - 1}
CodecRanks == 0 .. RK_MAX - 1
CodecWords ==
    {0, 1, RK_MASK, RK_MAX, RK_MAX + 1, 2 * RK_MAX - 1,
     (Pow2(ID_BITS - 1) - 1) * RK_MAX, (Pow2(ID_BITS - 1) - 1) * RK_MAX + RK_MASK}

\* an AtomicEntry that holds any word
CodecInit ==
    /\ \E w \in CodecWords : cells = [e \in {0} |-> w]
    /\ menu = <<<<>>>>
    /\ loc = <<IdleLocals>>
    /\ edges = {}
    /\ unioned = {}
    /\ tree = <<>>
    /\ concurrent = <<>>
    /\ sequential = <<>>
    /\ handles = <<>>
    /\ tester = [phase |-> "none"]

\* AtomicEntry::from(Entry::with_rank(id, rk)) replaces the cell
CodecFrom(id, rk) ==
    /\ WithRankAsserts(id, rk)
    /\ cells' = [cells EXCEPT ![0] = WordFromEntry(Entry(id, rk))]
    /\ loc' = [loc EXCEPT ![1].a = Entry(id, rk), ![1].b = NoEntry]
    /\ UNCHANGED <<tvars, menu, edges, unioned>>

\* AtomicEntry::load
CodecLoad ==
    /\ loc[1].b = NoEntry
    /\ loc' = [loc EXCEPT ![1].b = Load(cells, 0)]
    /\ UNCHANGED <<tvars, cells, menu, edges, unioned>>

CodecNext ==
    \/ \E id \in CodecIds, rk \in CodecRanks : CodecFrom(id, rk)
    \/ CodecLoad

CodecSpec == CodecInit /\ [][CodecNext]_vars

\* C23: the packed-entry codec is a bijection: the entry loaded from a cell
\* is the entry that was packed into it, packing the entry loaded from any
\* word gives that word back, and the id and rank fields do not overlap:
\* the word is id * 2^RK_BITS + rank with rank < 2^RK_BITS.
CodecIsBijection ==
    /\ loc[1].a # NoEntry /\ loc[1].b # NoEntry => loc[1].b = loc[1].a
    /\ WordFromEntry(Load(cells, 0)) = cells[0]
    /\ LET e == Load(cells, 0)
       IN  /\ e.rk < Pow2(RK_BITS)
           /\ e.id < Pow2(ID_BITS)
           /\ cells[0] = e.id * Pow2(RK_BITS) + e.rk

\* C23 witness: an entry with the largest rank and a large id has been
\* packed and loaded again
CodecLoadedLargest ==
    /\ loc[1].a = Entry(Pow2(ID_BITS - 1) - 1, RK_MAX - 1)
    /\ loc[1].b # NoEntry


(***************************************************************************)
(* Properties of compare_and_swap.                                         *)
(***************************************************************************)
\* the compare_and_swap a call is about to apply: the cell, the entry it
\* expects there and the entry it stores
CasArgs(l) ==
    CASE l.pc = "fe_cas" ->
            [index |-> l.element, exp |-> l.parent, new |-> l.grandparent]
      [] l.pc = "union_cas" ->
            [index |-> LinkIndex(l.a, l.b), exp |-> LinkExpected(l.a, l.b),
             new |-> LinkNew(l.a, l.b)]
      [] l.pc = "increment_rank" ->
            [index |-> l.b.id, exp |-> l.b, new |-> inc_rank(l.b)]
      [] l.pc = "force_cas" ->
            [index |-> l.i, exp |-> l.fparent, new |-> l.root]

\* thread t applies a compare_and_swap in this step
CasApplied(t) ==
    /\ loc[t].pc \in {"fe_cas", "union_cas", "increment_rank", "force_cas"}
    /\ loc'[t].pc # loc[t].pc

\* the compare_and_swap thread t applies in this step returns true, as far
\* as its caller looks at what it returns: union and force do
CasReturnedTrue(t) ==
    CASE loc[t].pc = "union_cas" -> LinkSucceeds(t)
      [] loc[t].pc = "force_cas" ->
            ~(loc'[t].pc = "force_load" /\ loc'[t].i = loc[t].i)

\* C24: compare_and_swap is the only way an entry changes, and it replaces
\* id and rank in one step: a step that applies none leaves every cell as
\* it was; one that applies it to a cell holding exactly the expected pair
\* leaves exactly the new pair there, returns true and changes no other
\* cell; otherwise it changes no cell and returns false.  And a loaded pair
\* is never torn: until another thread's CAS succeeds on its cell, or the
\* thread's own, an entry held in a local is the pair the cell holds.
CasIsAtomicAndAlone ==
    [][/\ (\A t \in Threads : ~CasApplied(t)) => cells' = cells
       /\ \A t \in Threads : CasApplied(t) =>
              LET c == CasArgs(loc[t])
                  held == cells[c.index] = WordFromEntry(c.exp)
              IN  /\ held => /\ Load(cells', c.index) = c.new
                             /\ \A e \in Elems \ {c.index} :
                                    cells'[e] = cells[e]
                  /\ ~held => cells' = cells
                  /\ loc[t].pc \in {"union_cas", "force_cas"}
                         => (CasReturnedTrue(t) <=> held)
       /\ \A t \in Threads :
              \A n \in {"parent", "grandparent", "b", "fparent"} :
                  /\ SourceCell(loc'[t], n) # NoElem
                  /\ n \notin loc'[t].stale
                  => Load(cells', SourceCell(loc'[t], n)) = loc'[t][n]]_vars

\* C24 witness: a linking compare_and_swap is about to fail: its cell no
\* longer holds the entry it expects
CasAboutToFail ==
    \E t \in Threads :
        /\ loc[t].pc = "union_cas"
        /\ ~CasSucceeds(cells, LinkIndex(loc[t].a, loc[t].b),
                        LinkExpected(loc[t].a, loc[t].b))


(***************************************************************************)
(* Ranks and set sizes.                                                    *)
(***************************************************************************)
\* the number of elements whose parent chain reaches r
SetSize(c, r) == Cardinality({e \in DOMAIN c : Reaches(c, e, r)})

\* C25: in every reachable state a root of rank k has at least 2^k elements
\* in its set, so every stored rank is at most log2 of the number of
\* elements, which is below RK_MAX - 1: no rank increment is applied to a
\* rank of RK_MAX - 1, and every word is its id shifted plus its rank.
RankBoundsSetSize ==
    /\ \A r \in Elems :
           IsRoot(cells, r) => Pow2(Load(cells, r).rk) <= SetSize(cells, r)
    /\ \A e \in Elems :
           /\ Pow2(Load(cells, e).rk) <= Cardinality(Elems)
           /\ Load(cells, e).rk < RK_MAX - 1
           /\ cells[e] = Load(cells, e).id * Pow2(RK_BITS) + Load(cells, e).rk
    /\ \A t \in Threads :
           loc[t].pc = "increment_rank" => loc[t].b.rk < RK_MAX - 1

(***************************************************************************)
(* NumThreads threads share new(Size + 1): the first serializes the        *)
(* structure while the others run two unions each.                         *)
(***************************************************************************)
SerInit ==
    Start(Size + 1,
          [t \in 1 .. NumThreads |->
               IF t = 1 THEN <<{"serialize"}>> ELSE <<{"union"}, {"union"}>>])

SerStep(t) ==
    \/ \E x \in Elems, y \in Elems : CallUnion(t, x, y)
    \/ CallSerialize(t)
    \/ FindLoad(t)
    \/ FindGrandparent(t)
    \/ FindCas(t)
    \/ UnionCas(t)
    \/ IncrementRank(t)
    \/ SerializeLoad(t)

SerNext == \E t \in 1 .. NumThreads : SerStep(t)

SerSpec == SerInit /\ [][SerNext]_vars

\* the pairs a serialization has written so far, all of them once it has
\* returned
Written(l) == IF l.pc = "idle" THEN l.result ELSE l.vec

\* C26: serializing while other threads change the structure, every pair
\* written is the (id, rank) its element's cell held at one instant of the
\* serialization: both fields are those of one entry the cell has held
\* since the invocation.
SerializedPairsAreInstants ==
    \A t \in Threads :
        loc[t].op = "serialize" =>
            \A k \in 1 .. Len(Written(loc[t])) :
                \E en \in loc[t].seen[k - 1] :
                    /\ Written(loc[t])[k][1] = en.id
                    /\ Written(loc[t])[k][2] = en.rk

\* C26 witness: a serialization has returned pairs that come from different
\* instants: the array never held all of them at once during the call
SerializedNoInstant ==
    \E t \in Threads :
        /\ loc[t].op = "serialize"
        /\ loc[t].pc = "idle"
        /\ \A c \in loc[t].snaps :
               \E e \in DOMAIN c :
                   \/ loc[t].result[e + 1][1] # Load(c, e).id
                   \/ loc[t].result[e + 1][2] # Load(c, e).rk

\* the array a serialization saw, when it was the same array throughout
Unchanging(l) == CHOOSE c \in l.snaps : TRUE

\* C27: serializing a structure that does not change meanwhile and
\* deserializing the pairs written gives a structure with the same len()
\* and the same equiv(i, j) for every i and j.
RoundTripKeepsEquiv ==
    \A t \in Threads :
        /\ loc[t].op = "serialize"
        /\ loc[t].pc = "idle"
        /\ Cardinality(loc[t].snaps) = 1
        => LET c == Unchanging(loc[t])
               d == Deserialize(loc[t].result)
           IN  /\ Cardinality(DOMAIN d) = Cardinality(DOMAIN c)
               /\ DOMAIN d = DOMAIN c
               /\ \A i \in DOMAIN c, j \in DOMAIN c :
                      SoloEquiv(d, i, j).ret = SoloEquiv(c, i, j).ret

\* C27 witness: a structure with a tree of three elements was serialized
\* unchanging, and the deserialized structure has them in one set
RoundTripOfLinked ==
    \E t \in Threads :
        /\ loc[t].op = "serialize"
        /\ loc[t].pc = "idle"
        /\ Cardinality(loc[t].snaps) = 1
        /\ \A i \in Elems : SoloEquiv(Deserialize(loc[t].result), 0, i).ret
        /\ \E r \in Elems : Load(Unchanging(loc[t]), r).rk = 1

(***************************************************************************)
(* The sequential UnionFind of src/src/array.rs on its own: one owner      *)
(* calls union, find, equiv, force and to_vec on new(ArrayLen), any        *)
(* number of times in any order.  The structure is the variable            *)
(* sequential; tester records the last call, its result and the structure  *)
(* before it.                                                              *)
(***************************************************************************)
\* the number of elements of the structure
ArrayLen == 4

ArrayElems == 0 .. (ArrayLen - 1)

\* UnionFind::force: for each index in turn, find and then set_parent
RECURSIVE UfForceFrom(_, _)
UfForceFrom(uf, i) ==
    IF i >= Cardinality(DOMAIN uf.elements) THEN uf
    ELSE LET f == UfFind(uf, i) IN
         UfForceFrom(UfSetParent(f.uf, i, f.ret), i + 1)

UfForce(uf) == [uf |-> UfForceFrom(uf, 0), ret |-> "unit"]

\* UnionFind::to_vec: force, then the elements vector
UfToVec(uf) ==
    LET f == UfForce(uf).uf IN
    [uf |-> f,
     ret |-> [k \in 1 .. Cardinality(DOMAIN f.elements) |-> f.elements[k - 1]]]

\* the representative of e's set: the end of its parent chain
RECURSIVE UfRootOf(_, _)
UfRootOf(uf, e) ==
    IF uf.elements[e] = e THEN e ELSE UfRootOf(uf, uf.elements[e])

\* i and j are in the same set
UfSameSet(uf, i, j) == UfRootOf(uf, i) = UfRootOf(uf, j)

ArrayInit ==
    /\ sequential = UfNew(ArrayLen)
    /\ tester = [phase |-> "array", op |-> "new", a |-> ArrayLen, b |-> 0,
                 ret |-> <<"unit">>, before |-> UfNew(ArrayLen)]
    /\ concurrent = <<>>
    /\ handles = <<>>
    /\ cells = New(0)
    /\ loc = <<>>
    /\ menu = <<>>
    /\ edges = {}
    /\ unioned = {}
    /\ tree = <<>>

\* a call whose outcome is r has been made with arguments a and b
ArrayCalled(op, a, b, r) ==
    /\ tester.phase = "array"
    /\ sequential' = r.uf
    /\ tester' = [phase |-> "array", op |-> op, a |-> a, b |-> b,
                  ret |-> <<r.ret>>, before |-> sequential]
    /\ UNCHANGED <<pvars, concurrent, handles>>

ArrayUnion(a, b) == ArrayCalled("union", a, b, UfUnion(sequential, a, b))

ArrayFind(a) == ArrayCalled("find", a, 0, UfFind(sequential, a))

ArrayEquiv(a, b) == ArrayCalled("equiv", a, b, UfEquiv(sequential, a, b))

ArrayForce == ArrayCalled("force", 0, 0, UfForce(sequential))

ArrayToVec == ArrayCalled("to_vec", 0, 0, UfToVec(sequential))

ArrayNext ==
    \/ \E a \in ArrayElems, b \in ArrayElems : ArrayUnion(a, b)
    \/ \E a \in ArrayElems : ArrayFind(a)
    \/ \E a \in ArrayElems, b \in ArrayElems : ArrayEquiv(a, b)
    \/ ArrayForce
    \/ ArrayToVec

ArraySpec == ArrayInit /\ [][ArrayNext]_vars

\* C28: sequential UnionFind: union(a, b) returns true iff a and b were in
\* different sets before the call, and afterwards the sets of a and b are
\* one set and every other set is as before; find, equiv, force and to_vec
\* leave the partition as it was.
ArrayUnionMergesExactly ==
    LET was == tester.before
        a == tester.a
        b == tester.b
    IN  /\ tester.op = "union" =>
            /\ tester.ret = <<~UfSameSet(was, a, b)>>
            /\ UfSameSet(sequential, a, b)
            /\ \A i \in ArrayElems, j \in ArrayElems :
                   UfSameSet(sequential, i, j) <=>
                       \/ UfSameSet(was, i, j)
                       \/ UfSameSet(was, i, a) /\ UfSameSet(was, j, b)
                       \/ UfSameSet(was, i, b) /\ UfSameSet(was, j, a)
        /\ tester.op \in {"find", "equiv", "force", "to_vec"} =>
            \A i \in ArrayElems, j \in ArrayElems :
                UfSameSet(sequential, i, j) <=> UfSameSet(was, i, j)

\* C28 witness: a union of two sets of two elements each has returned true
\* and left a root of rank 2
ArrayUnionOfPairs ==
    /\ tester.op = "union"
    /\ tester.ret = <<TRUE>>
    /\ \E r \in ArrayElems : sequential.ranks[r] = 2


(***************************************************************************)
(* The UnionFindNode of src/src/tree.rs: each node is a cell holding       *)
(* Root { data, rank }, Link(parent) or Dummy, and a handle is the index   *)
(* of its cell.  One owner has made TreeNodes nodes with new, the data of  *)
(* node n being <<n>>, and calls union, union_with, find and equiv on      *)
(* them, any number of times in any order.  The closure given to           *)
(* union_with joins its two arguments in the order it is given them, and   *)
(* returns; tree records the last call, what it returned, the arguments    *)
(* the closure was called with, and the cells before the call.             *)
(***************************************************************************)
\* the number of nodes
TreeNodes == 4

Nodes == 0 .. (TreeNodes - 1)

\* enum NodeImpl
Root(data, rank) == [tag |-> "Root", data |-> data, rank |-> rank]
Link(parent) == [tag |-> "Link", parent |-> parent]
Dummy == [tag |-> "Dummy"]

\* NodeImpl::new
NodeImplNew(data) == Root(data, 0)

\* UnionFindNode::new for each of the nodes
TreeNew == [n \in Nodes |-> NodeImplNew(<<n>>)]

\* UnionFindNode::find_with_rank: every node on the way is made to point at
\* the root; a Dummy on the way is the panic "find: got dummy"
RECURSIVE FindWithRank(_, _)
FindWithRank(ns, self) ==
    IF ns[self].tag = "Root"
    THEN [nodes |-> ns, root |-> self, rank |-> ns[self].rank,
          panic |-> "none"]
    ELSE IF ns[self].tag = "Dummy"
    THEN [nodes |-> ns, root |-> self, rank |-> 0,
          panic |-> "find: got dummy"]
    ELSE LET r == FindWithRank(ns, ns[self].parent) IN
         IF r.panic # "none" THEN r
         ELSE [nodes |-> [r.nodes EXCEPT ![self] = Link(r.root)],
               root |-> r.root, rank |-> r.rank, panic |-> "none"]

\* UnionFindNode::find
RECURSIVE TreeFind(_, _)
TreeFind(ns, self) ==
    IF ns[self].tag = "Root"
    THEN [nodes |-> ns, ret |-> self, panic |-> "none"]
    ELSE IF ns[self].tag = "Dummy"
    THEN [nodes |-> ns, ret |-> self, panic |-> "find: got dummy"]
    ELSE LET r == TreeFind(ns, ns[self].parent) IN
         IF r.panic # "none" THEN r
         ELSE [nodes |-> [r.nodes EXCEPT ![self] = Link(r.ret)],
               ret |-> r.ret, panic |-> "none"]

\* UnionFindNode::equiv
TreeEquiv(ns, self, other) ==
    LET fa == TreeFind(ns, self)
        fb == TreeFind(fa.nodes, other)
    IN  IF fa.panic # "none"
        THEN [nodes |-> fa.nodes, ret |-> FALSE, panic |-> fa.panic]
        ELSE [nodes |-> fb.nodes, ret |-> (fa.ret = fb.ret),
              panic |-> fb.panic]

\* UnionFindNode::increment_rank: a u8, far from its limit with these
\* nodes; on a node that is no root it is the panic
\* "increment_rank: non-root"
TreeIncrementRank(ns, self) ==
    IF ns[self].tag = "Root"
    THEN [nodes |-> [ns EXCEPT ![self] =
                       Root(ns[self].data, (ns[self].rank + 1) % 256)],
          panic |-> "none"]
    ELSE [nodes |-> ns, panic |-> "increment_rank: non-root"]

\* set_parent giving back the data and leaving the node a root
SetParentKeepsRoot(ns, self, new_parent) ==
    [nodes |-> ns, ret |-> ns[self].data, panic |-> "none"]

\* UnionFindNode::set_parent: the node becomes a link, its data is
\* returned; a node that was no root is the panic "set_parent: non-root",
\* after the link has been stored
SetParent(ns, self, new_parent) ==
    [nodes |-> [ns EXCEPT ![self] = Link(new_parent)],
     ret |-> IF ns[self].tag = "Root" THEN ns[self].data ELSE <<>>,
     panic |-> IF ns[self].tag = "Root" THEN "none"
                                        ELSE "set_parent: non-root"]

\* UnionFindNode::union
TreeUnion(ns, self, other) ==
    LET fa == FindWithRank(ns, self)
        fb == FindWithRank(fa.nodes, other)
        a == fa.root
        b == fb.root
        rank_a == fa.rank
        rank_b == fb.rank
        inc == TreeIncrementRank(fb.nodes, b)
        Panicked(nodes, p) == [nodes |-> nodes, ret |-> <<>>, panic |-> p]
        Some(r) == IF r.panic # "none" THEN Panicked(r.nodes, r.panic)
                   ELSE [nodes |-> r.nodes, ret |-> <<"Some", r.ret>>,
                         panic |-> "none"]
    IN  IF fa.panic # "none" THEN Panicked(fa.nodes, fa.panic)
        ELSE IF fb.panic # "none" THEN Panicked(fb.nodes, fb.panic)
        ELSE IF a = b
             THEN [nodes |-> fb.nodes, ret |-> <<"None">>, panic |-> "none"]
        ELSE IF rank_a > rank_b THEN Some(SetParent(fb.nodes, b, a))
        ELSE IF rank_b > rank_a THEN Some(SetParent(fb.nodes, a, b))
        ELSE IF inc.panic # "none" THEN Panicked(inc.nodes, inc.panic)
        ELSE Some(SetParent(inc.nodes, a, b))

\* the closure f given to union_with: what it returns and what it was given
ClientF(x, y) == [data |-> x \o y, args |-> <<x, y>>]

\* the closure handing its arguments on to f as it gets them
Unflipped(b_data, a_data) == ClientF(b_data, a_data)

\* |b_data, a_data| f(a_data, b_data)
Flipped(b_data, a_data) == ClientF(a_data, b_data)

\* set_parent_with never storing the new root: the parent stays a Dummy
SetParentWithLeavesDummy(ns, self, parent, flipped) ==
    LET contents_self == ns[self]
        contents_parent == ns[parent]
        called == IF flipped
                  THEN Flipped(contents_self.data, contents_parent.data)
                  ELSE ClientF(contents_self.data, contents_parent.data)
    IN  [nodes |-> [ns EXCEPT ![self] = Link(parent), ![parent] = Dummy],
         called |-> <<called.args>>,
         panic |-> "none"]

\* UnionFindNode::set_parent_with: self becomes a link, the parent is a
\* Dummy while the closure runs and then the root with its result and its
\* old rank; flipped: the closure given is the one of union_with that
\* flips its arguments, else it is f itself.  When one of the two was no
\* root it is the panic "set_parent_with: non-root", with the link and the
\* Dummy stored; when the two are one node the second borrow_mut panics
\* before anything is stored.
SetParentWith(ns, self, parent, flipped) ==
    LET contents_self == ns[self]
        contents_parent == ns[parent]
        called == IF flipped
                  THEN Flipped(contents_self.data, contents_parent.data)
                  ELSE ClientF(contents_self.data, contents_parent.data)
    IN  IF self = parent
        THEN [nodes |-> ns, called |-> <<>>, panic |-> "already borrowed"]
        ELSE IF contents_self.tag = "Root" /\ contents_parent.tag = "Root"
        THEN [nodes |-> [ns EXCEPT ![self] = Link(parent),
                                   ![parent] = Root(called.data,
                                                    contents_parent.rank)],
              called |-> <<called.args>>,
              panic |-> "none"]
        ELSE [nodes |-> [ns EXCEPT ![self] = Link(parent),
                                   ![parent] = Dummy],
              called |-> <<>>,
              panic |-> "set_parent_with: non-root"]

\* UnionFindNode::union_with
TreeUnionWith(ns, self, other) ==
    LET fa == FindWithRank(ns, self)
        fb == FindWithRank(fa.nodes, other)
        a == fa.root
        b == fb.root
        rank_a == fa.rank
        rank_b == fb.rank
        inc == TreeIncrementRank(fb.nodes, b)
        Panicked(nodes, p) ==
            [nodes |-> nodes, ret |-> <<>>, called |-> <<>>, panic |-> p]
        True(r) == IF r.panic # "none" THEN Panicked(r.nodes, r.panic)
                   ELSE [nodes |-> r.nodes, ret |-> <<TRUE>>,
                         called |-> r.called, panic |-> "none"]
    IN  IF fa.panic # "none" THEN Panicked(fa.nodes, fa.panic)
        ELSE IF fb.panic # "none" THEN Panicked(fb.nodes, fb.panic)
        ELSE IF a = b
             THEN [nodes |-> fb.nodes, ret |-> <<FALSE>>, called |-> <<>>,
                   panic |-> "none"]
        ELSE IF rank_a > rank_b
             THEN True(SetParentWith(fb.nodes, b, a, TRUE))
        ELSE IF rank_b > rank_a
             THEN True(SetParentWith(fb.nodes, a, b, FALSE))
        ELSE IF inc.panic # "none" THEN Panicked(inc.nodes, inc.panic)
        ELSE True(SetParentWith(inc.nodes, a, b, FALSE))

\* std::mem::replace(data, new), the closure of replace_data
Replace(data, new) == [data |-> new, ret |-> data]

\* a closure given to with_data: it returns the data it finds and leaves
\* the length of that data as the new data
ClientG(data) == [data |-> <<Len(data)>>, ret |-> data]

\* UnionFindNode::root_with_data: the closure is run on the data of a
\* root; on a node that is no root it is the panic "with_data: non-root";
\* replacing: the closure is that of replace_data(new), else it is the
\* client's
RootWithData(ns, self, replacing, new) ==
    IF ns[self].tag = "Root"
    THEN LET called == IF replacing THEN Replace(ns[self].data, new)
                                    ELSE ClientG(ns[self].data)
         IN  [nodes |-> [ns EXCEPT ![self] =
                           Root(called.data, ns[self].rank)],
              ret |-> <<called.ret>>, panic |-> "none"]
    ELSE [nodes |-> ns, ret |-> <<>>, panic |-> "with_data: non-root"]

\* UnionFindNode::with_data: self.find().root_with_data(f)
TreeWithData(ns, self, replacing, new) ==
    LET f == TreeFind(ns, self) IN
    IF f.panic # "none"
    THEN [nodes |-> f.nodes, ret |-> <<>>, panic |-> f.panic]
    ELSE RootWithData(f.nodes, f.ret, replacing, new)

\* UnionFindNode::replace_data: self.with_data(|data| replace(data, new))
TreeReplaceData(ns, self, new) == TreeWithData(ns, self, TRUE, new)

\* the root at the end of a node's links, and the data of its set
RECURSIVE RootOf(_, _)
RootOf(ns, n) == IF ns[n].tag = "Root" THEN n ELSE RootOf(ns, ns[n].parent)

DataOf(ns, n) == ns[RootOf(ns, n)].data

TreeInit ==
    /\ tree = [nodes |-> TreeNew, op |-> "new", a |-> 0, b |-> 0,
               ret |-> <<>>, called |-> <<>>, before |-> TreeNew,
               panic |-> "none"]
    /\ cells = New(0)
    /\ loc = <<>>
    /\ menu = <<>>
    /\ edges = {}
    /\ unioned = {}
    /\ concurrent = <<>>
    /\ sequential = <<>>
    /\ handles = <<>>
    /\ tester = [phase |-> "none"]

\* a call on the handles a and b has been made: the cells it leaves, what
\* it returned, what f was called with and the panic that ended it, if
\* one did; after a panic no further call is made
TreeCalled(op, a, b, ns, ret, called, panic) ==
    /\ tree.panic = "none"
    /\ tree' = [nodes |-> ns, op |-> op, a |-> a, b |-> b,
                ret |-> ret, called |-> called, before |-> tree.nodes,
                panic |-> panic]
    /\ UNCHANGED <<cells, loc, menu, edges, unioned,
                   concurrent, sequential, handles, tester>>

CallTreeUnion(a, b) ==
    LET r == TreeUnion(tree.nodes, a, b) IN
    TreeCalled("union", a, b, r.nodes, r.ret, <<>>, r.panic)

CallTreeUnionWith(a, b) ==
    LET r == TreeUnionWith(tree.nodes, a, b) IN
    TreeCalled("union_with", a, b, r.nodes, r.ret, r.called, r.panic)

CallTreeFind(a) ==
    LET r == TreeFind(tree.nodes, a) IN
    TreeCalled("find", a, 0, r.nodes, <<r.ret>>, <<>>, r.panic)

CallTreeEquiv(a, b) ==
    LET r == TreeEquiv(tree.nodes, a, b) IN
    TreeCalled("equiv", a, b, r.nodes, <<r.ret>>, <<>>, r.panic)

TreeNext ==
    \/ \E a \in Nodes, b \in Nodes : CallTreeUnion(a, b)
    \/ \E a \in Nodes, b \in Nodes : CallTreeUnionWith(a, b)
    \/ \E a \in Nodes : CallTreeFind(a)
    \/ \E a \in Nodes, b \in Nodes : CallTreeEquiv(a, b)

TreeSpec == TreeInit /\ [][TreeNext]_vars

\* C29: UnionFindNode::union(self, other) returns None iff self and other
\* were in the same set; otherwise one of the two roots has become a child
\* of the other, the call returns Some of the data the child had, the
\* merged set has the data the parent had, and equiv(self, other) holds
\* afterwards.
UnionReturnsChildData ==
    tree.op = "union" =>
        LET was == tree.before
            ra == RootOf(was, tree.a)
            rb == RootOf(was, tree.b)
        IN  /\ (tree.ret = <<"None">>) <=> (ra = rb)
            /\ ra # rb =>
                 /\ \E child \in {ra, rb}, parent \in {ra, rb} :
                        /\ child # parent
                        /\ tree.nodes[child] = Link(parent)
                        /\ tree.nodes[parent].tag = "Root"
                        /\ tree.ret = <<"Some", was[child].data>>
                        /\ tree.nodes[parent].data = was[parent].data
                        /\ DataOf(tree.nodes, tree.a) = was[parent].data
                        /\ DataOf(tree.nodes, tree.b) = was[parent].data
                 /\ TreeEquiv(tree.nodes, tree.a, tree.b).ret
            /\ ra = rb =>
                 \A n \in Nodes :
                     /\ RootOf(tree.nodes, n) = RootOf(was, n)
                     /\ DataOf(tree.nodes, n) = DataOf(was, n)

\* C29 witness: a union has made the root of lower rank, which was the
\* root of the second argument, a child and has returned its data
UnionOfUnequalRanks ==
    /\ tree.op = "union"
    /\ Len(tree.ret) = 2
    /\ RootOf(tree.before, tree.a) = RootOf(tree.nodes, tree.a)
    /\ tree.ret[2] = DataOf(tree.before, tree.b)
    /\ tree.a # RootOf(tree.before, tree.a)

\* C30: UnionFindNode::union_with(other, f) on nodes of two different sets
\* calls f exactly once, with the data of self's set and the data of
\* other's set in that order whichever root becomes the parent, makes f's
\* result the data of the merged set and returns true; on nodes of one set
\* it returns false, does not call f and changes no data.
UnionWithCallsFOnce ==
    tree.op = "union_with" =>
        LET was == tree.before
            ra == RootOf(was, tree.a)
            rb == RootOf(was, tree.b)
            da == DataOf(was, tree.a)
            db == DataOf(was, tree.b)
        IN  /\ ra # rb =>
                 /\ tree.called = <<<<da, db>>>>
                 /\ tree.ret = <<TRUE>>
                 /\ RootOf(tree.nodes, tree.a) = RootOf(tree.nodes, tree.b)
                 /\ RootOf(tree.nodes, tree.a) \in {ra, rb}
                 /\ DataOf(tree.nodes, tree.a) = da \o db
                 /\ \A n \in Nodes :
                        RootOf(was, n) \notin {ra, rb} =>
                            /\ RootOf(tree.nodes, n) = RootOf(was, n)
                            /\ DataOf(tree.nodes, n) = DataOf(was, n)
            /\ ra = rb =>
                 /\ tree.called = <<>>
                 /\ tree.ret = <<FALSE>>
                 /\ \A n \in Nodes :
                        /\ RootOf(tree.nodes, n) = RootOf(was, n)
                        /\ DataOf(tree.nodes, n) = DataOf(was, n)

\* C30 witness: union_with has made the root of other's set a child of the
\* root of self's set, and the merged data begins with the data of self's
\* set
UnionWithUnderSelf ==
    /\ tree.op = "union_with"
    /\ tree.ret = <<TRUE>>
    /\ RootOf(tree.nodes, tree.a) = RootOf(tree.before, tree.a)
    /\ tree.called = <<<<DataOf(tree.before, tree.a),
                         DataOf(tree.before, tree.b)>>>>


(***************************************************************************)
(* The linking CAS of union and its rank increment.                        *)
(***************************************************************************)
\* C31: at the instant a union's linking CAS succeeds, the element that is
\* linked and its new parent are both roots, and the rank of the linked
\* element is at most the rank of its new parent.
LinkIsRootUnderRoot ==
    [][\A t \in Threads :
         LinkSucceeds(t) =>
             LET c == CasArgs(loc[t]) IN
             /\ IsRoot(cells, c.index)
             /\ IsRoot(cells, c.new.id)
             /\ Load(cells, c.index).rk <= Load(cells, c.new.id).rk]_vars


\* C32 as stated: a successful linking CAS changes only the id field of the
\* entry of the root it links: the rank stored there stays what it was.
LinkKeepsLoserRank ==
    [][\A t \in Threads :
         LinkSucceeds(t) =>
             LET index == CasArgs(loc[t]).index IN
             Load(cells', index).rk = Load(cells, index).rk]_vars

\* C32 as the code has it: a successful linking CAS replaces the whole entry
\* of the root it links by the entry union loaded for the other root, id
\* and rank: the stored rank stays what it was exactly when the two ranks
\* loaded were equal, and no other cell changes.
LinkStoresWinnerEntry ==
    [][\A t \in Threads :
         LinkSucceeds(t) =>
             LET a == loc[t].a
                 b == loc[t].b
                 loser == IF a.rk > b.rk THEN b ELSE a
                 winner == IF a.rk > b.rk THEN a ELSE b
             IN  /\ Load(cells, loser.id) = loser
                 /\ Load(cells', loser.id).id = winner.id
                 /\ Load(cells', loser.id).rk = winner.rk
                 /\ (Load(cells', loser.id).rk = loser.rk) <=> (a.rk = b.rk)
                 /\ \A e \in Elems \ {loser.id} : cells'[e] = cells[e]]_vars

\* C32 witness: a linking CAS is about to succeed on a root whose rank is
\* lower than the rank of the root it is linked under
LinkOfUnequalRanks ==
    \E t \in Threads :
        /\ loc[t].pc = "union_cas"
        /\ loc[t].a.rk # loc[t].b.rk
        /\ CasSucceeds(cells, LinkIndex(loc[t].a, loc[t].b),
                       LinkExpected(loc[t].a, loc[t].b))


IncrementRankOnlyRaisesRoot ==
    [][\A t \in Threads :
         loc[t].pc = "increment_rank" /\ loc'[t].pc # "increment_rank" =>
             LET b == loc[t].b IN
             /\ loc[t].op = "union"
             /\ loc[t].a.rk = b.rk
             /\ loc'[t].pc = "idle"
             /\ loc'[t].result = TRUE
             /\ \A e \in Elems : Load(cells', e).id = Load(cells, e).id
             /\ cells' # cells =>
                    /\ IsRoot(cells, b.id)
                    /\ Load(cells, b.id) = b
                    /\ Load(cells', b.id).rk = Load(cells, b.id).rk + 1
                    /\ \A e \in Elems \ {b.id} : cells'[e] = cells[e]
             /\ cells' = cells => Load(cells, b.id) # b]_vars

\* C34 witness: a union is about to make its rank-increment CAS, and the
\* CAS will fail because the entry is no longer the one the union loaded
IncrementAboutToFail ==
    \E t \in Threads :
        /\ loc[t].pc = "increment_rank"
        /\ ~CasSucceeds(cells, loc[t].b.id, loc[t].b)


(***************************************************************************)
(* NumThreads threads share new(Size + 1): the first runs a union and then *)
(* force or to_vec, the others run two unions each.                        *)
(***************************************************************************)
VecInit ==
    Start(Size + 1,
          [t \in 1 .. NumThreads |->
               IF t = 1 THEN <<{"union"}, {"force", "to_vec"}>>
                        ELSE <<{"union"}, {"union"}>>])

VecStep(t) ==
    \/ \E x \in Elems, y \in Elems : CallUnion(t, x, y)
    \/ CallForce(t)
    \/ CallToVec(t)
    \/ FindLoad(t)
    \/ FindGrandparent(t)
    \/ FindCas(t)
    \/ UnionCas(t)
    \/ IncrementRank(t)
    \/ ForceLoad(t)
    \/ ForceCas(t)
    \/ ToVecLoad(t)

VecNext == \E t \in 1 .. NumThreads : VecStep(t)

VecSpec == VecInit /\ [][VecNext]_vars

(***************************************************************************)
(* The loop force runs for each index.                                     *)
(***************************************************************************)
\* thread t is in force's loop for an index
InForceLoop(t) ==
    /\ loc[t].op \in {"force", "to_vec"}
    /\ loc[t].pc \in {"force_load", "fe_load", "fe_grandparent", "fe_cas",
                      "force_cas"}

\* thread t takes the step that leaves force's loop for its index
LeavesForceLoop(t) ==
    /\ InForceLoop(t)
    /\ \/ loc'[t].pc \in {"idle", "to_vec_load"}
       \/ loc'[t].pc = "force_load" /\ loc'[t].i = loc[t].i + 1

\* thread t takes the step that makes force's relinking CAS
ForceCasTaken(t) ==
    loc[t].pc = "force_cas" /\ loc'[t].pc # "force_cas"

\* thread t leaves the loop on loading an entry that is its own index
LeavesSelfRooted(t) ==
    loc[t].pc = "force_load" /\ Load(cells, loc[t].i).id = loc[t].i

\* thread t leaves the loop because find_entry returns the id that the
\* entry loaded for the index already holds
LeavesParentIsRoot(t) ==
    \/ /\ loc[t].pc = "fe_load"
       /\ Load(cells, loc[t].element).id = loc[t].element
       /\ loc[t].fparent.id = loc[t].element
    \/ /\ loc[t].pc = "fe_cas"
       /\ loc[t].parent.id = loc[t].grandparent.id
       /\ loc[t].fparent.id = loc[t].grandparent.id

\* C35 as stated: after force's relinking CAS the loop for the index is
\* entered again and the entry loaded again, whether the CAS succeeded or
\* failed, and the loop is left only on finding the index self-rooted or
\* its parent already the root.
ForceLoopRepeatsAfterCas ==
    [][\A t \in Threads :
         /\ ForceCasTaken(t) =>
                loc'[t].pc = "force_load" /\ loc'[t].i = loc[t].i
         /\ LeavesForceLoop(t) =>
                LeavesSelfRooted(t) \/ LeavesParentIsRoot(t)]_vars

\* C35 as the code has it: a relinking CAS that fails sends force back to
\* load the entry of the same index again, a relinking CAS that succeeds
\* leaves the loop for that index with the entry of the index replaced by
\* the root found; the loop is left only on finding the index self-rooted,
\* on finding its parent already the root, or on a successful CAS.
ForceLoopLeftOnCasSuccess ==
    [][\A t \in Threads :
         /\ ForceCasTaken(t) =>
                LET l == loc[t] IN
                IF Load(cells, l.i) = l.fparent
                THEN /\ LeavesForceLoop(t)
                     /\ Load(cells', l.i) = l.root
                ELSE /\ loc'[t].pc = "force_load"
                     /\ loc'[t].i = l.i
                     /\ cells' = cells
         /\ LeavesForceLoop(t) =>
                \/ LeavesSelfRooted(t)
                \/ LeavesParentIsRoot(t)
                \/ /\ loc[t].pc = "force_cas"
                   /\ Load(cells, loc[t].i) = loc[t].fparent]_vars

\* C35 witness: force is about to make a relinking CAS that will succeed
ForceCasAboutToSucceed ==
    \E t \in Threads :
        /\ loc[t].pc = "force_cas"
        /\ CasSucceeds(cells, loc[t].i, loc[t].fparent)

\* force is about to make a relinking CAS that will fail
ForceCasAboutToFail ==
    \E t \in Threads :
        /\ loc[t].pc = "force_cas"
        /\ ~CasSucceeds(cells, loc[t].i, loc[t].fparent)


(***************************************************************************)
(* to_vec while other threads run unions.                                  *)
(***************************************************************************)
\* C36: in a to_vec that runs while other threads run unions, every value
\* of the vector, collected so far or returned, is the id its slot's entry
\* held at one instant since the to_vec was invoked.
ToVecValuesAreInstants ==
    \A t \in Threads :
        loc[t].op = "to_vec" =>
            /\ Len(Written(loc[t])) <= len
            /\ loc[t].pc = "idle" => Len(loc[t].result) = len
            /\ \A k \in 1 .. Len(Written(loc[t])) :
                   \E en \in loc[t].seen[k - 1] : Written(loc[t])[k] = en.id

\* C36 witness: a to_vec has returned a vector that the ids of the array
\* equalled at no instant of the call
ToVecNoInstant ==
    \E t \in Threads :
        /\ loc[t].op = "to_vec"
        /\ loc[t].pc = "idle"
        /\ \A c \in loc[t].snaps :
               \E e \in DOMAIN c : loc[t].result[e + 1] # Load(c, e).id


(***************************************************************************)
(* Calls with an index that is not below len(): one thread makes up to     *)
(* MaxBoundsCalls calls on new(Size + 2), with arguments from 0 ..= len(): *)
(* unions, and as the last call a union, a find or an equiv.               *)
(***************************************************************************)
MaxBoundsCalls == 4

BoundsInit ==
    Start(Size + 2,
          <<[k \in 1 .. MaxBoundsCalls |->
                 IF k < MaxBoundsCalls THEN {"union"}
                                       ELSE {"union", "find", "equiv"}]>>)

BoundsStep(t) ==
    \/ \E x \in 0 .. len, y \in 0 .. len : CallUnion(t, x, y)
    \/ \E x \in 0 .. len : CallFind(t, x)
    \/ \E x \in 0 .. len, y \in 0 .. len : CallEquiv(t, x, y)
    \/ FindLoad(t)
    \/ FindGrandparent(t)
    \/ FindCas(t)
    \/ UnionCas(t)
    \/ IncrementRank(t)
    \/ EquivLoad(t)

BoundsNext == \E t \in 1 .. 1 : BoundsStep(t)

BoundsSpec == BoundsInit /\ [][BoundsNext]_vars

\* the call in progress with locals l was given an index not below len()
OutOfRange(l) ==
    /\ l.op \in {"union", "find", "equiv"}
    /\ l.pc \notin {"idle", "panicked"}
    /\ \/ l.x \notin Elems
       \/ l.op # "find" /\ l.y \notin Elems

\* C37: a find, union or equiv called with an index that is not below len()
\* never returns a value and never reaches its linking CAS or equiv's
\* re-check: the first load of the bad index panics, at once when it is the
\* first argument; every step of such a call leaves the partition of the
\* elements as it was; and a call whose indices are all below len() does
\* not panic.
OutOfRangePanics ==
    [][\A t \in Threads :
         /\ OutOfRange(loc[t]) /\ loc'[t] # loc[t] =>
                /\ loc'[t].pc \notin {"idle", "union_cas", "increment_rank",
                                      "equiv_load"}
                /\ DOMAIN cells' = DOMAIN cells
                /\ \A i \in Elems, j \in Elems :
                       SameSet(cells', i, j) <=> SameSet(cells, i, j)
                /\ loc[t].pc = "fe_load" /\ loc[t].element \notin Elems =>
                       loc'[t].pc = "panicked" /\ cells' = cells
                /\ loc[t].x \notin Elems =>
                       loc[t].pc = "fe_load" /\ loc'[t].pc = "panicked"
         /\ loc[t].pc # "panicked" /\ loc'[t].pc = "panicked" =>
                OutOfRange(loc[t])]_vars

\* C37 witness: a union whose second argument is len() has panicked after
\* its find_entry of the first argument, which is linked under another
\* element
UnionPanicked ==
    /\ loc[1].pc = "panicked"
    /\ loc[1].op = "union"
    /\ loc[1].x \in Elems
    /\ loc[1].y = len
    /\ ~IsRoot(cells, loc[1].x)


(***************************************************************************)
(* UnionFind::alloc of src/src/array.rs.  The structure starts as new(n)   *)
(* for an n up to AllocStart and grows by alloc up to MaxAlloc elements;   *)
(* between the allocs, union, find and equiv are called on the elements it *)
(* has.  Element is usize, for which from_usize never fails.               *)
(***************************************************************************)
AllocStart == 2
MaxAlloc == 4

\* alloc pushing a cell that holds element 0
UfAllocZero(uf) ==
    LET n == Cardinality(DOMAIN uf.elements) IN
    [uf |-> [elements |-> [i \in 0 .. n |->
                             IF i < n THEN uf.elements[i] ELSE 0],
             ranks |-> [i \in 0 .. n |-> IF i < n THEN uf.ranks[i] ELSE 0]],
     ret |-> n]

\* UnionFind::alloc: result is the element numbered elements.len();
\* elements.push(Cell::new(result)); ranks.push(0); result
UfAlloc(uf) ==
    LET result == Cardinality(DOMAIN uf.elements) IN
    [uf |-> [elements |-> [i \in 0 .. result |->
                             IF i < result THEN uf.elements[i] ELSE result],
             ranks |-> [i \in 0 .. result |->
                          IF i < result THEN uf.ranks[i] ELSE 0]],
     ret |-> result]

\* UnionFind::len
UfLen(uf) == Cardinality(DOMAIN uf.elements)

AllocInit ==
    /\ \E n \in 0 .. AllocStart :
           /\ sequential = UfNew(n)
           /\ tester = [phase |-> "array", op |-> "new", a |-> n, b |-> 0,
                        ret |-> <<"unit">>, before |-> UfNew(n)]
    /\ concurrent = <<>>
    /\ handles = <<>>
    /\ cells = New(0)
    /\ loc = <<>>
    /\ menu = <<>>
    /\ edges = {}
    /\ unioned = {}
    /\ tree = <<>>

ArrayAlloc ==
    /\ UfLen(sequential) < MaxAlloc
    /\ ArrayCalled("alloc", 0, 0, UfAlloc(sequential))

AllocNext ==
    \/ ArrayAlloc
    \/ \E a \in 0 .. (MaxAlloc - 1), b \in 0 .. (MaxAlloc - 1) :
           /\ a < UfLen(sequential) /\ b < UfLen(sequential)
           /\ ArrayUnion(a, b)
    \/ \E a \in 0 .. (MaxAlloc - 1) :
           a < UfLen(sequential) /\ ArrayFind(a)
    \/ \E a \in 0 .. (MaxAlloc - 1), b \in 0 .. (MaxAlloc - 1) :
           /\ a < UfLen(sequential) /\ b < UfLen(sequential)
           /\ ArrayEquiv(a, b)

AllocSpec == AllocInit /\ [][AllocNext]_vars

MaxNodes == 3

\* the handles new may return
NodeIds == 0 .. (MaxNodes - 1)

\* the data replace_data is given
NewData == {<<9>>}

\* the number of nodes made so far
NumNodes == Cardinality(DOMAIN tree.nodes)

NodeInit ==
    /\ tree = [nodes |-> <<>>, op |-> "none", a |-> 0, b |-> 0,
               ret |-> <<>>, called |-> <<>>, before |-> <<>>,
               panic |-> "none"]
    /\ cells = New(0)
    /\ loc = <<>>
    /\ menu = <<>>
    /\ edges = {}
    /\ unioned = {}
    /\ concurrent = <<>>
    /\ sequential = <<>>
    /\ handles = <<>>
    /\ tester = [phase |-> "none"]

\* UnionFindNode::new(data): the next handle, with the data <<handle>>
CallNodeNew ==
    /\ NumNodes < MaxNodes
    /\ LET n == NumNodes IN
       TreeCalled("new", n, 0,
                  [k \in 0 .. n |-> IF k < n THEN tree.nodes[k]
                                             ELSE NodeImplNew(<<n>>)],
                  <<n>>, <<>>, "none")

CallTreeReplaceData(a, new) ==
    LET r == TreeReplaceData(tree.nodes, a, new) IN
    TreeCalled("replace_data", a, 0, r.nodes, r.ret, <<>>, r.panic)

CallTreeWithData(a) ==
    LET r == TreeWithData(tree.nodes, a, FALSE, <<>>) IN
    TreeCalled("with_data", a, 0, r.nodes, r.ret, <<>>, r.panic)

NodeNext ==
    \/ CallNodeNew
    \/ \E a \in NodeIds, b \in NodeIds :
           a < NumNodes /\ b < NumNodes /\ CallTreeUnion(a, b)
    \/ \E a \in NodeIds, b \in NodeIds :
           a < NumNodes /\ b < NumNodes /\ CallTreeUnionWith(a, b)
    \/ \E a \in NodeIds : a < NumNodes /\ CallTreeFind(a)
    \/ \E a \in NodeIds, b \in NodeIds :
           a < NumNodes /\ b < NumNodes /\ CallTreeEquiv(a, b)
    \/ \E a \in NodeIds, new \in NewData :
           a < NumNodes /\ CallTreeReplaceData(a, new)
    \/ \E a \in NodeIds : a < NumNodes /\ CallTreeWithData(a)

NodeSpec == NodeInit /\ [][NodeNext]_vars

\* C39: after every call of new, union, union_with, find, equiv,
\* replace_data and with_data, with closures that return and touch no node,
\* no node is a Dummy and the call has ended in none of the panics: not
\* "find: got dummy", nor the non-root panics of set_parent,
\* set_parent_with, increment_rank and root_with_data; every link leads to
\* a node that has been made.
NoDummyNoPanic ==
    /\ tree.panic = "none"
    /\ \A n \in DOMAIN tree.nodes :
           /\ tree.nodes[n].tag \in {"Root", "Link"}
           /\ tree.nodes[n].tag = "Link" =>
                  tree.nodes[n].parent \in DOMAIN tree.nodes

\* C39 witness: with_data has returned, called on a node that was a link
\* in a set whose data union_with had put together from two sets
WithDataOnLinked ==
    /\ tree.op = "with_data"
    /\ tree.panic = "none"
    /\ tree.before[tree.a].tag = "Link"
    /\ Len(DataOf(tree.before, tree.a)) >= 2
    /\ tree.ret = <<DataOf(tree.before, tree.a)>>

=============================================================================
